---- MODULE Spec2Model ----
(***************************************************************************)
(* AES (128/192/256) block cipher, key schedule, PKCS#7 padding and CBC    *)
(* mode of wachidamirul/AES-Encryption, as a state machine of library      *)
(* calls.  Byte arrays are sequences of naturals; the code's 0-based index *)
(* i is position i + 1 here.  A fallible operation returns Ok(value) or    *)
(* Err(message, arguments), the thrown Error with the values interpolated  *)
(* into its message.                                                       *)
(***************************************************************************)
EXTENDS Integers, Sequences, FiniteSets, TLC

VARIABLES
    pc,         \* position of the calling session
    key,        \* key argument
    iv,         \* IV argument: [given |-> TRUE, bytes |-> ...] or [given |-> FALSE]
    data,       \* byte-array argument (plaintext, ciphertext, block, padded data)
    rnd,        \* the values Math.random() returns, as numerators over RandDen
    out,        \* result of the first call of the session
    back,       \* result of the inverse call made on out
    recordSteps,\* the recordSteps argument of encrypt / decrypt
    loop        \* locals of the block loop in progress: offset i, previousBlock, output

vars == <<pc, key, iv, data, rnd, out, back, recordSteps, loop>>

-----------------------------------------------------------------------------
(* Results and thrown errors *)

Ok(v) == [ok |-> TRUE, val |-> v]

Err(m, a) == [ok |-> FALSE, err |-> [msg |-> m, args |-> a]]

NoResult == [ok |-> FALSE, err |-> [msg |-> "not called", args |-> <<>>]]

\* no block loop entered; keyExpansions counts the calls of keyExpansion made so far
NoLoop ==
    [i |-> 0, previousBlock |-> << >>, input |-> << >>, output |-> << >>,
     keyExpansions |-> 0]

\* F applied to the value of v, v being evaluated once (LET evaluates by name)
Let(v, F(_)) == CHOOSE r \in {F(b) : b \in {v}} : TRUE

-----------------------------------------------------------------------------
(* aesConstants.ts: tables of the standard cipher (spec 4.1) *)

BLOCK_SIZE_BYTES == 16

KEY_SIZES == [AES_128 |-> 128, AES_192 |-> 192, AES_256 |-> 256]

NUM_ROUNDS(keySize) ==
    CASE keySize = 128 -> 10
      [] keySize = 192 -> 12
      [] keySize = 256 -> 14

SBOX ==
<<
  99, 124, 119, 123, 242, 107, 111, 197, 48, 1, 103, 43, 254, 215, 171, 118,
  202, 130, 201, 125, 250, 89, 71, 240, 173, 212, 162, 175, 156, 164, 114, 192,
  183, 253, 147, 38, 54, 63, 247, 204, 52, 165, 229, 241, 113, 216, 49, 21,
  4, 199, 35, 195, 24, 150, 5, 154, 7, 18, 128, 226, 235, 39, 178, 117,
  9, 131, 44, 26, 27, 110, 90, 160, 82, 59, 214, 179, 41, 227, 47, 132,
  83, 209, 0, 237, 32, 252, 177, 91, 106, 203, 190, 57, 74, 76, 88, 207,
  208, 239, 170, 251, 67, 77, 51, 133, 69, 249, 2, 127, 80, 60, 159, 168,
  81, 163, 64, 143, 146, 157, 56, 245, 188, 182, 218, 33, 16, 255, 243, 210,
  205, 12, 19, 236, 95, 151, 68, 23, 196, 167, 126, 61, 100, 93, 25, 115,
  96, 129, 79, 220, 34, 42, 144, 136, 70, 238, 184, 20, 222, 94, 11, 219,
  224, 50, 58, 10, 73, 6, 36, 92, 194, 211, 172, 98, 145, 149, 228, 121,
  231, 200, 55, 109, 141, 213, 78, 169, 108, 86, 244, 234, 101, 122, 174, 8,
  186, 120, 37, 46, 28, 166, 180, 198, 232, 221, 116, 31, 75, 189, 139, 138,
  112, 62, 181, 102, 72, 3, 246, 14, 97, 53, 87, 185, 134, 193, 29, 158,
  225, 248, 152, 17, 105, 217, 142, 148, 155, 30, 135, 233, 206, 85, 40, 223,
  140, 161, 137, 13, 191, 230, 66, 104, 65, 153, 45, 15, 176, 84, 187, 22 >>

INV_SBOX ==
<<
  82, 9, 106, 213, 48, 54, 165, 56, 191, 64, 163, 158, 129, 243, 215, 251,
  124, 227, 57, 130, 155, 47, 255, 135, 52, 142, 67, 68, 196, 222, 233, 203,
  84, 123, 148, 50, 166, 194, 35, 61, 238, 76, 149, 11, 66, 250, 195, 78,
  8, 46, 161, 102, 40, 217, 36, 178, 118, 91, 162, 73, 109, 139, 209, 37,
  114, 248, 246, 100, 134, 104, 152, 22, 212, 164, 92, 204, 93, 101, 182, 146,
  108, 112, 72, 80, 253, 237, 185, 218, 94, 21, 70, 87, 167, 141, 157, 132,
  144, 216, 171, 0, 140, 188, 211, 10, 247, 228, 88, 5, 184, 179, 69, 6,
  208, 44, 30, 143, 202, 63, 15, 2, 193, 175, 189, 3, 1, 19, 138, 107,
  58, 145, 17, 65, 79, 103, 220, 234, 151, 242, 207, 206, 240, 180, 230, 115,
  150, 172, 116, 34, 231, 173, 53, 133, 226, 249, 55, 232, 28, 117, 223, 110,
  71, 241, 26, 113, 29, 41, 197, 137, 111, 183, 98, 14, 170, 24, 190, 27,
  252, 86, 62, 75, 198, 210, 121, 32, 154, 219, 192, 254, 120, 205, 90, 244,
  31, 221, 168, 51, 136, 7, 199, 49, 177, 18, 16, 89, 39, 128, 236, 95,
  96, 81, 127, 169, 25, 181, 74, 13, 45, 229, 122, 159, 147, 201, 156, 239,
  160, 224, 59, 77, 174, 42, 245, 176, 200, 235, 187, 60, 131, 83, 153, 97,
  23, 43, 4, 126, 186, 119, 214, 38, 225, 105, 20, 99, 85, 33, 12, 125 >>

RCON == << 1, 2, 4, 8, 16, 32, 64, 128, 27, 54 >>

\* JavaScript a ^ b on non-negative integers, bit by bit
RECURSIVE XorNat(_, _)
XorNat(a, b) ==
    IF a = 0 THEN b
    ELSE IF b = 0 THEN a
    ELSE (((a % 2) + (b % 2)) % 2) + 2 * XorNat(a \div 2, b \div 2)

\* a ^ b tabulated once for bytes
XOR8 == [a \in 0..255 |-> [b \in 0..255 |-> XorNat(a, b)]]

\* the two values of an array element that are not numbers: NaN is what parseInt
\* returns when no digit can be read, undefined what an index outside a table yields
NaN == -1

undefined == -2

\* the operand conversion of ^: NaN and undefined become 0
ToInt32(b) == IF b < 0 THEN 0 ELSE b

\* a ^ b
Xor(a, b) ==
    IF a \in 0..255 /\ b \in 0..255 THEN XOR8[a][b]
    ELSE XorNat(ToInt32(a), ToInt32(b))

\* T[b] for a table T of 256 entries, 0-based as in the code
At(T, b) == IF b \in 0..255 THEN T[b + 1] ELSE undefined

\* multiplication by x in GF(2^8) modulo x^8 + x^4 + x^3 + x + 1
xtime(b) == IF b >= 128 THEN XorNat((2 * b) % 256, 27) ELSE 2 * b

\* carry-less multiply-and-reduce of a by the constant c
RECURSIVE gfMultiply(_, _)
gfMultiply(a, c) ==
    IF c = 0 THEN 0
    ELSE XorNat(IF c % 2 = 1 THEN a ELSE 0, gfMultiply(xtime(a), c \div 2))

MULT_2 == [b \in 0..255 |-> gfMultiply(b, 2)]

MULT_3 == [b \in 0..255 |-> gfMultiply(b, 3)]

MULT_9 == [b \in 0..255 |-> gfMultiply(b, 9)]

MULT_11 == [b \in 0..255 |-> gfMultiply(b, 11)]

MULT_13 == [b \in 0..255 |-> gfMultiply(b, 13)]

MULT_14 == [b \in 0..255 |-> gfMultiply(b, 14)]

-----------------------------------------------------------------------------
(* keyExpansion.ts *)

\* the SubWord-only branch taken for 24-byte keys too (Nk >= 6)
keyExpansionWordSubWordFrom6(w, i, Nk) ==
    LET temp == w[i]
        prev == w[i - Nk + 1]
    IN  IF i % Nk = 0
        THEN << Xor(Xor(At(SBOX, temp[2]), RCON[i \div Nk]), prev[1]),
                Xor(At(SBOX, temp[3]), prev[2]),
                Xor(At(SBOX, temp[4]), prev[3]),
                Xor(At(SBOX, temp[1]), prev[4]) >>
        ELSE IF Nk >= 6 /\ i % Nk = 4
        THEN << Xor(At(SBOX, temp[1]), prev[1]), Xor(At(SBOX, temp[2]), prev[2]),
                Xor(At(SBOX, temp[3]), prev[3]), Xor(At(SBOX, temp[4]), prev[4]) >>
        ELSE << Xor(temp[1], prev[1]), Xor(temp[2], prev[2]),
                Xor(temp[3], prev[3]), Xor(temp[4], prev[4]) >>

\* body of the expansion loop: the word stored in w[i] (position i + 1)
keyExpansionWord(w, i, Nk) ==
    LET temp == w[i]
        prev == w[i - Nk + 1]
    IN  IF i % Nk = 0
        THEN \* rotWord = [temp[1], temp[2], temp[3], temp[0]], subWord = SBOX of it,
             \* subWord[0] ^= RCON[i / Nk], then ^ w[i - Nk]
             << Xor(Xor(At(SBOX, temp[2]), RCON[i \div Nk]), prev[1]),
                Xor(At(SBOX, temp[3]), prev[2]),
                Xor(At(SBOX, temp[4]), prev[3]),
                Xor(At(SBOX, temp[1]), prev[4]) >>
        ELSE IF Nk > 6 /\ i % Nk = 4
        THEN << Xor(At(SBOX, temp[1]), prev[1]), Xor(At(SBOX, temp[2]), prev[2]),
                Xor(At(SBOX, temp[3]), prev[3]), Xor(At(SBOX, temp[4]), prev[4]) >>
        ELSE << Xor(temp[1], prev[1]), Xor(temp[2], prev[2]),
                Xor(temp[3], prev[3]), Xor(temp[4], prev[4]) >>

\* for (let i = lo; i <= hi; i++) w[i] = ...: the iterations in increasing order,
\* the range halved so that the evaluation stays shallow
RECURSIVE keyExpansionLoop(_, _, _, _)
keyExpansionLoop(w, lo, hi, Nk) ==
    IF lo > hi THEN w
    ELSE IF lo = hi THEN [w EXCEPT ![lo + 1] = keyExpansionWord(w, lo, Nk)]
    ELSE Let(keyExpansionLoop(w, lo, (lo + hi) \div 2, Nk),
             LAMBDA half : keyExpansionLoop(half, ((lo + hi) \div 2) + 1, hi, Nk))

\* w after the copy of the key into its first Nk words, the rest still zero
keyExpansionCopy(k, Nk, expandedKeyWords) ==
    [i \in 1..expandedKeyWords |->
        IF i <= Nk
        THEN << k[4 * (i - 1) + 1], k[4 * (i - 1) + 2],
                k[4 * (i - 1) + 3], k[4 * (i - 1) + 4] >>
        ELSE << 0, 0, 0, 0 >>]

\* the last round key left out (i < numRounds)
keyExpansionFormatShort(w, numRounds) ==
    [r \in 1..numRounds |->
        w[4 * (r - 1) + 1] \o w[4 * (r - 1) + 2] \o w[4 * (r - 1) + 3] \o w[4 * (r - 1) + 4]]

\* round key i is words 4i .. 4i+3, for i = 0 .. numRounds inclusive
keyExpansionFormat(w, numRounds) ==
    [r \in 1..(numRounds + 1) |->
        w[4 * (r - 1) + 1] \o w[4 * (r - 1) + 2] \o w[4 * (r - 1) + 3] \o w[4 * (r - 1) + 4]]

\* a 33-byte key taken for a 32-byte one
keySizeOfTruncating(keyLengthBytes) ==
    IF keyLengthBytes = 16 THEN Ok(KEY_SIZES.AES_128)
    ELSE IF keyLengthBytes = 24 THEN Ok(KEY_SIZES.AES_192)
    ELSE IF keyLengthBytes >= 32 THEN Ok(KEY_SIZES.AES_256)
    ELSE Err("Invalid key length", << keyLengthBytes >>)

\* the if / else-if chain on key.length that sets keySize or throws
keySizeOf(keyLengthBytes) ==
    IF keyLengthBytes = 16 THEN Ok(KEY_SIZES.AES_128)
    ELSE IF keyLengthBytes = 24 THEN Ok(KEY_SIZES.AES_192)
    ELSE IF keyLengthBytes = 32 THEN Ok(KEY_SIZES.AES_256)
    ELSE Err("Invalid key length", << keyLengthBytes >>)

keyExpansion(k) ==
    LET keyLengthBytes == Len(k)
        keySize == keySizeOf(keyLengthBytes)
    IN  IF ~keySize.ok THEN keySize
        ELSE LET numRounds == NUM_ROUNDS(keySize.val)
                 Nk == keyLengthBytes \div 4
                 expandedKeyWords == 4 * (numRounds + 1)
             IN  Let(keyExpansionCopy(k, Nk, expandedKeyWords) \o << >>,
                     LAMBDA w0 :
                 Let(keyExpansionLoop(w0, Nk, expandedKeyWords - 1, Nk),
                     LAMBDA w : Ok(keyExpansionFormat(w, numRounds) \o << >>)))

-----------------------------------------------------------------------------
(* aesCore.ts: a state is << row0, row1, row2, row3 >>, each row 4 bytes *)

SubRow(T, row) == << At(T, row[1]), At(T, row[2]), At(T, row[3]), At(T, row[4]) >>

subBytes(state) ==
    << SubRow(SBOX, state[1]), SubRow(SBOX, state[2]),
       SubRow(SBOX, state[3]), SubRow(SBOX, state[4]) >>

invSubBytes(state) ==
    << SubRow(INV_SBOX, state[1]), SubRow(INV_SBOX, state[2]),
       SubRow(INV_SBOX, state[3]), SubRow(INV_SBOX, state[4]) >>

\* every row but the first rotated left by one
shiftRowsByOne(state) ==
    << << state[1][1], state[1][2], state[1][3], state[1][4] >>,
       << state[2][2], state[2][3], state[2][4], state[2][1] >>,
       << state[3][2], state[3][3], state[3][4], state[3][1] >>,
       << state[4][2], state[4][3], state[4][4], state[4][1] >> >>

shiftRows(state) ==
    << << state[1][1], state[1][2], state[1][3], state[1][4] >>,
       << state[2][2], state[2][3], state[2][4], state[2][1] >>,
       << state[3][3], state[3][4], state[3][1], state[3][2] >>,
       << state[4][4], state[4][1], state[4][2], state[4][3] >> >>

\* rows rotated left as in shiftRows
invShiftRowsLeft(state) ==
    << << state[1][1], state[1][2], state[1][3], state[1][4] >>,
       << state[2][2], state[2][3], state[2][4], state[2][1] >>,
       << state[3][3], state[3][4], state[3][1], state[3][2] >>,
       << state[4][4], state[4][1], state[4][2], state[4][3] >> >>

invShiftRows(state) ==
    << << state[1][1], state[1][2], state[1][3], state[1][4] >>,
       << state[2][4], state[2][1], state[2][2], state[2][3] >>,
       << state[3][3], state[3][4], state[3][1], state[3][2] >>,
       << state[4][2], state[4][3], state[4][4], state[4][1] >> >>

\* a ^ b ^ c ^ d
Xor4(a, b, c, d) ==
    IF a \in 0..255 /\ b \in 0..255 /\ c \in 0..255 /\ d \in 0..255
    THEN XOR8[XOR8[XOR8[a][b]][c]][d]
    ELSE Xor(Xor(Xor(a, b), c), d)

\* M[b] for a multiplication table M, undefined outside 0..255
MultAt(M, b) == IF b \in 0..255 THEN M[b] ELSE undefined

\* new byte of row `row` (0..3) in column col
mixColumnsAt(state, row, col) ==
    LET s0 == state[1][col]
        s1 == state[2][col]
        s2 == state[3][col]
        s3 == state[4][col]
    IN  CASE row = 0 -> Xor4(MultAt(MULT_2, s0), MultAt(MULT_3, s1), s2, s3)
          [] row = 1 -> Xor4(s0, MultAt(MULT_2, s1), MultAt(MULT_3, s2), s3)
          [] row = 2 -> Xor4(s0, s1, MultAt(MULT_2, s2), MultAt(MULT_3, s3))
          [] row = 3 -> Xor4(MultAt(MULT_3, s0), s1, s2, MultAt(MULT_2, s3))

invMixColumnsAt(state, row, col) ==
    LET s0 == state[1][col]
        s1 == state[2][col]
        s2 == state[3][col]
        s3 == state[4][col]
    IN  CASE row = 0 -> Xor4(MultAt(MULT_14, s0), MultAt(MULT_11, s1), MultAt(MULT_13, s2), MultAt(MULT_9, s3))
          [] row = 1 -> Xor4(MultAt(MULT_9, s0), MultAt(MULT_14, s1), MultAt(MULT_11, s2), MultAt(MULT_13, s3))
          [] row = 2 -> Xor4(MultAt(MULT_13, s0), MultAt(MULT_9, s1), MultAt(MULT_14, s2), MultAt(MULT_11, s3))
          [] row = 3 -> Xor4(MultAt(MULT_11, s0), MultAt(MULT_13, s1), MultAt(MULT_9, s2), MultAt(MULT_14, s3))

mixColumns(state) ==
    << << mixColumnsAt(state, 0, 1), mixColumnsAt(state, 0, 2),
          mixColumnsAt(state, 0, 3), mixColumnsAt(state, 0, 4) >>,
       << mixColumnsAt(state, 1, 1), mixColumnsAt(state, 1, 2),
          mixColumnsAt(state, 1, 3), mixColumnsAt(state, 1, 4) >>,
       << mixColumnsAt(state, 2, 1), mixColumnsAt(state, 2, 2),
          mixColumnsAt(state, 2, 3), mixColumnsAt(state, 2, 4) >>,
       << mixColumnsAt(state, 3, 1), mixColumnsAt(state, 3, 2),
          mixColumnsAt(state, 3, 3), mixColumnsAt(state, 3, 4) >> >>

invMixColumns(state) ==
    << << invMixColumnsAt(state, 0, 1), invMixColumnsAt(state, 0, 2),
          invMixColumnsAt(state, 0, 3), invMixColumnsAt(state, 0, 4) >>,
       << invMixColumnsAt(state, 1, 1), invMixColumnsAt(state, 1, 2),
          invMixColumnsAt(state, 1, 3), invMixColumnsAt(state, 1, 4) >>,
       << invMixColumnsAt(state, 2, 1), invMixColumnsAt(state, 2, 2),
          invMixColumnsAt(state, 2, 3), invMixColumnsAt(state, 2, 4) >>,
       << invMixColumnsAt(state, 3, 1), invMixColumnsAt(state, 3, 2),
          invMixColumnsAt(state, 3, 3), invMixColumnsAt(state, 3, 4) >> >>

\* keyMatrix[row][col] = roundKey[col * 4 + row]
addRoundKeyRow(state, roundKey, row) ==
    << Xor(state[row][1], roundKey[row]),
       Xor(state[row][2], roundKey[4 + row]),
       Xor(state[row][3], roundKey[8 + row]),
       Xor(state[row][4], roundKey[12 + row]) >>

addRoundKey(state, roundKey) ==
    << addRoundKeyRow(state, roundKey, 1), addRoundKeyRow(state, roundKey, 2),
       addRoundKeyRow(state, roundKey, 3), addRoundKeyRow(state, roundKey, 4) >>

\* only blocks longer than 16 bytes rejected; bytes[i] past the end is undefined
bytesToStateShortAllowed(bytes) ==
    IF Len(bytes) > BLOCK_SIZE_BYTES
    THEN Err("Invalid block size", << Len(bytes) >>)
    ELSE LET byte(n) == IF n <= Len(bytes) THEN bytes[n] ELSE undefined
         IN  Ok(<< << byte(1), byte(5), byte(9),  byte(13) >>,
                   << byte(2), byte(6), byte(10), byte(14) >>,
                   << byte(3), byte(7), byte(11), byte(15) >>,
                   << byte(4), byte(8), byte(12), byte(16) >> >>)

\* state[i % 4][floor(i / 4)] = bytes[i]
bytesToState(bytes) ==
    IF Len(bytes) # BLOCK_SIZE_BYTES
    THEN Err("Invalid block size", << Len(bytes) >>)
    ELSE Ok(<< << bytes[1], bytes[5], bytes[9],  bytes[13] >>,
               << bytes[2], bytes[6], bytes[10], bytes[14] >>,
               << bytes[3], bytes[7], bytes[11], bytes[15] >>,
               << bytes[4], bytes[8], bytes[12], bytes[16] >> >>)

\* bytes[col * 4 + row] = state[row][col]
stateToBytes(state) ==
    << state[1][1], state[2][1], state[3][1], state[4][1],
       state[1][2], state[2][2], state[3][2], state[4][2],
       state[1][3], state[2][3], state[3][3], state[4][3],
       state[1][4], state[2][4], state[3][4], state[4][4] >>

\* MixColumns applied in the final round too
aesEncryptionRoundAlwaysMixes(state, roundKey, isFinalRound) ==
    Let(subBytes(state), LAMBDA subbed :
    Let(shiftRows(subbed), LAMBDA shifted :
    Let(mixColumns(shifted), LAMBDA mixed :
    addRoundKey(mixed, roundKey))))

aesEncryptionRound(state, roundKey, isFinalRound) ==
    Let(subBytes(state), LAMBDA subbed :
    Let(shiftRows(subbed), LAMBDA shifted :
    Let(IF ~isFinalRound THEN mixColumns(shifted) ELSE shifted, LAMBDA mixed :
    addRoundKey(mixed, roundKey))))

aesDecryptionRound(state, roundKey, isFirstRound) ==
    Let(invShiftRows(state), LAMBDA shifted :
    Let(invSubBytes(shifted), LAMBDA subbed :
    Let(addRoundKey(subbed, roundKey), LAMBDA keyed :
    IF ~isFirstRound THEN invMixColumns(keyed) ELSE keyed)))

\* ShiftRows before SubBytes
aesEncryptionRoundStepsShiftFirst(isFinalRound) ==
    IF ~isFinalRound
    THEN << "shiftRows", "subBytes", "mixColumns", "addRoundKey" >>
    ELSE << "shiftRows", "subBytes", "addRoundKey" >>

\* the calls of aesEncryptionRound in the order its statements make them
aesEncryptionRoundSteps(isFinalRound) ==
    IF ~isFinalRound
    THEN << "subBytes", "shiftRows", "mixColumns", "addRoundKey" >>
    ELSE << "subBytes", "shiftRows", "addRoundKey" >>

\* InvMixColumns before AddRoundKey
aesDecryptionRoundStepsMixFirst(isFirstRound) ==
    IF ~isFirstRound
    THEN << "invShiftRows", "invSubBytes", "invMixColumns", "addRoundKey" >>
    ELSE << "invShiftRows", "invSubBytes", "addRoundKey" >>

\* the calls of aesDecryptionRound in the order its statements make them
aesDecryptionRoundSteps(isFirstRound) ==
    IF ~isFirstRound
    THEN << "invShiftRows", "invSubBytes", "addRoundKey", "invMixColumns" >>
    ELSE << "invShiftRows", "invSubBytes", "addRoundKey" >>

\* newState after the call named step
roundStep(step, newState, roundKey) ==
    CASE step = "subBytes" -> subBytes(newState)
      [] step = "shiftRows" -> shiftRows(newState)
      [] step = "mixColumns" -> mixColumns(newState)
      [] step = "invSubBytes" -> invSubBytes(newState)
      [] step = "invShiftRows" -> invShiftRows(newState)
      [] step = "invMixColumns" -> invMixColumns(newState)
      [] step = "addRoundKey" -> addRoundKey(newState, roundKey)

\* what the round functions and the block functions have called so far: the name
\* of the transformation, and for addRoundKey the index of the round key passed
Applied(step, round) ==
    IF step = "addRoundKey" THEN << step, round >> ELSE << step >>

\* for (let round = 1; round < numRounds; round++)
RECURSIVE aesEncryptMainRounds(_, _, _, _)
aesEncryptMainRounds(state, roundKeys, round, numRounds) ==
    IF round >= numRounds
    THEN state
    ELSE Let(aesEncryptionRound(state, roundKeys[round + 1], FALSE),
             LAMBDA next : aesEncryptMainRounds(next, roundKeys, round + 1, numRounds))

\* for (let round = numRounds - 1; round > 0; round--)
RECURSIVE aesDecryptMainRounds(_, _, _)
aesDecryptMainRounds(state, roundKeys, round) ==
    IF round <= 0
    THEN state
    ELSE Let(aesDecryptionRound(state, roundKeys[round + 1], FALSE),
             LAMBDA next : aesDecryptMainRounds(next, roundKeys, round - 1))

\* the rounds of aesEncryptBlock on the state `initial` with the expanded key
aesEncryptRounds(initial, roundKeys) ==
    LET numRounds == Len(roundKeys) - 1
    IN  Let(addRoundKey(initial, roundKeys[0 + 1]), LAMBDA whitened :
        Let(aesEncryptMainRounds(whitened, roundKeys, 1, numRounds), LAMBDA mainDone :
        aesEncryptionRound(mainDone, roundKeys[numRounds + 1], TRUE)))

\* the rounds of aesDecryptBlock on the state `initial` with the expanded key
aesDecryptRounds(initial, roundKeys) ==
    LET numRounds == Len(roundKeys) - 1
    IN  Let(addRoundKey(initial, roundKeys[numRounds + 1]), LAMBDA whitened :
        Let(aesDecryptMainRounds(whitened, roundKeys, numRounds - 1), LAMBDA mainDone :
        aesDecryptionRound(mainDone, roundKeys[0 + 1], TRUE)))

aesEncryptBlock(block, k) ==
    Let(keyExpansion(k), LAMBDA expanded :
    IF ~expanded.ok THEN expanded
    ELSE Let(bytesToState(block), LAMBDA initial :
         IF ~initial.ok THEN initial
         ELSE Let(aesEncryptRounds(initial.val, expanded.val), LAMBDA final :
              Ok(stateToBytes(final)))))

aesDecryptBlock(block, k) ==
    Let(keyExpansion(k), LAMBDA expanded :
    IF ~expanded.ok THEN expanded
    ELSE Let(bytesToState(block), LAMBDA initial :
         IF ~initial.ok THEN initial
         ELSE Let(aesDecryptRounds(initial.val, expanded.val), LAMBDA final :
              Ok(stateToBytes(final)))))

-----------------------------------------------------------------------------
(* utils.ts *)

\* resolution of Math.random(): it returns n / RandDen for some n in 0 .. RandDen - 1
RandDen == 1000

\* bytes.push(Math.floor(Math.random() * 256)), the i-th draw being random[i] / RandDen
generateRandomBytes(length, random) ==
    [i \in 1..length |-> (random[i] * 256) \div RandDen]

xorBytes(a, b) ==
    IF Len(a) # Len(b)
    THEN Err("Byte arrays must have the same length", << Len(a), Len(b) >>)
    ELSE Ok([i \in 1..Len(a) |-> Xor(a[i], b[i])] \o << >>)

\* Array.prototype.slice(from, to) with 0 <= from
Slice(s, from, to) == SubSeq(s, from + 1, IF to < Len(s) THEN to ELSE Len(s))

\* A string is the sequence of its UTF-16 code units when it is a text, and the
\* sequence of its characters (one-character strings) when it is hex text.

\* blocks.flat(): the blocks one after the other
RECURSIVE joinBlocks(_)
joinBlocks(blocks) ==
    IF blocks = << >> THEN << >>
    ELSE Head(blocks) \o joinBlocks(Tail(blocks))

\* bytes.push(str.charCodeAt(i)): one array element per code unit, whatever its size
stringToBytes(str) == [i \in 1..Len(str) |-> str[i]] \o << >>

\* String.fromCharCode(...bytes): each element converted to 16 bits (NaN to 0)
bytesToString(bytes) == [i \in 1..Len(bytes) |-> ToInt32(bytes[i]) % 65536] \o << >>

HexDigits ==
    << "0", "1", "2", "3", "4", "5", "6", "7", "8", "9", "a", "b", "c", "d", "e", "f" >>

UpperHexDigits ==
    << "0", "1", "2", "3", "4", "5", "6", "7", "8", "9", "A", "B", "C", "D", "E", "F" >>

IsHexDigit(c) == \E i \in 1..16 : HexDigits[i] = c \/ UpperHexDigits[i] = c

HexValue(c) == (CHOOSE i \in 1..16 : HexDigits[i] = c \/ UpperHexDigits[i] = c) - 1

IsWhitespace(c) == c = " "

\* parseInt(s, 16) for the one or two characters substring(i, i + 2) yields: the
\* prefix 0x is skipped, then the longest run of hex digits is read, NaN when
\* there is none (sign characters are not among the characters of the model)
parseInt16(s) ==
    IF Len(s) = 2 /\ s[1] = "0" /\ s[2] \in {"x", "X"} THEN NaN
    ELSE IF Len(s) = 0 \/ ~IsHexDigit(s[1]) THEN NaN
    ELSE IF Len(s) = 2 /\ IsHexDigit(s[2]) THEN 16 * HexValue(s[1]) + HexValue(s[2])
    ELSE HexValue(s[1])

\* whitespace removed, '0' prepended to an odd length, then parseInt on each pair
hexToBytes(hex) ==
    Let(SelectSeq(hex, LAMBDA c : ~IsWhitespace(c)), LAMBDA stripped :
    Let(IF Len(stripped) % 2 # 0 THEN << "0" >> \o stripped ELSE stripped,
        LAMBDA even :
    [i \in 1..(Len(even) \div 2) |-> parseInt16(SubSeq(even, 2 * i - 1, 2 * i))]
        \o << >>))

\* Number.prototype.toString(16) of a non-negative integer
RECURSIVE ToString16(_)
ToString16(n) ==
    IF n < 16 THEN << HexDigits[n + 1] >>
    ELSE ToString16(n \div 16) \o << HexDigits[(n % 16) + 1] >>

\* byte.toString(16).padStart(2, '0')
byteToHex(byte) ==
    IF byte = NaN THEN << "N", "a", "N" >>
    ELSE IF byte < 16 THEN << "0" >> \o ToString16(byte)
    ELSE ToString16(byte)

\* the join('') of the elements lo .. hi, the range halved
RECURSIVE bytesToHexJoin(_, _, _)
bytesToHexJoin(bytes, lo, hi) ==
    IF lo > hi THEN << >>
    ELSE IF lo = hi THEN byteToHex(bytes[lo])
    ELSE bytesToHexJoin(bytes, lo, (lo + hi) \div 2)
            \o bytesToHexJoin(bytes, ((lo + hi) \div 2) + 1, hi)

bytesToHex(bytes) == bytesToHexJoin(bytes, 1, Len(bytes)) \o << >>

\* /^[0-9A-Fa-f]+$/ on the input without its whitespace
isValidHex(input) ==
    LET stripped == SelectSeq(input, LAMBDA c : ~IsWhitespace(c))
    IN  Len(stripped) > 0 /\ \A i \in 1..Len(stripped) : IsHexDigit(stripped[i])

isValidKeyLength(k) == Len(k) = 16 \/ Len(k) = 24 \/ Len(k) = 32

-----------------------------------------------------------------------------
(* cbcMode.ts *)

\* no padding block added to data that is already block-aligned
padPKCS7NoFullBlock(d, blockSize) ==
    LET paddingLength == (blockSize - (Len(d) % blockSize)) % blockSize
    IN  d \o [i \in 1..paddingLength |-> paddingLength]

padPKCS7(d, blockSize) ==
    LET paddingLength == blockSize - (Len(d) % blockSize)
    IN  d \o [i \in 1..paddingLength |-> paddingLength]

\* only the length byte trusted: no padding byte compared
unpadPKCS7LoopUnchecked(d, paddingLength, i) ==
    Ok(Slice(d, 0, Len(d) - paddingLength))

\* for (let i = data.length - paddingLength; i < data.length; i++)
RECURSIVE unpadPKCS7Loop(_, _, _)
unpadPKCS7Loop(d, paddingLength, i) ==
    IF i >= Len(d)
    THEN Ok(Slice(d, 0, Len(d) - paddingLength))
    ELSE IF d[i + 1] # paddingLength
    THEN Err("Invalid padding", << paddingLength, d[i + 1], i >>)
    ELSE unpadPKCS7Loop(d, paddingLength, i + 1)

\* a full block of padding rejected (>= for >)
unpadPKCS7RejectsFullBlock(d) ==
    IF Len(d) = 0
    THEN Err("Cannot unpad empty data", << >>)
    ELSE LET paddingLength == d[Len(d)]
         IN  IF paddingLength <= 0 \/ paddingLength >= BLOCK_SIZE_BYTES
                \/ paddingLength > Len(d)
             THEN Err("Invalid padding length", << paddingLength >>)
             ELSE unpadPKCS7Loop(d, paddingLength, Len(d) - paddingLength)

unpadPKCS7(d) ==
    IF Len(d) = 0
    THEN Err("Cannot unpad empty data", << >>)
    ELSE LET paddingLength == d[Len(d)]
         IN  IF paddingLength <= 0 \/ paddingLength > BLOCK_SIZE_BYTES
                \/ paddingLength > Len(d)
             THEN Err("Invalid padding length", << paddingLength >>)
             ELSE unpadPKCS7Loop(d, paddingLength, Len(d) - paddingLength)

\* previousBlock never updated: every block XORed with the IV
encryptCBCStepKeepsIV(st, paddedPlaintext, k, i) ==
    Let(Slice(paddedPlaintext, i, i + BLOCK_SIZE_BYTES), LAMBDA block :
    Let(xorBytes(block, st.previousBlock), LAMBDA xoredBlock :
    IF ~xoredBlock.ok THEN xoredBlock
    ELSE Let(aesEncryptBlock(xoredBlock.val, k), LAMBDA encryptedBlock :
         IF ~encryptedBlock.ok THEN encryptedBlock
         ELSE Ok([ciphertext |-> st.ciphertext \o encryptedBlock.val,
                  previousBlock |-> st.previousBlock]))))

\* one iteration of the encryption loop at offset i; st is [ciphertext, previousBlock]
encryptCBCStep(st, paddedPlaintext, k, i) ==
    Let(Slice(paddedPlaintext, i, i + BLOCK_SIZE_BYTES), LAMBDA block :
    Let(xorBytes(block, st.previousBlock), LAMBDA xoredBlock :
    IF ~xoredBlock.ok THEN xoredBlock
    ELSE Let(aesEncryptBlock(xoredBlock.val, k), LAMBDA encryptedBlock :
         IF ~encryptedBlock.ok THEN encryptedBlock
         ELSE Ok([ciphertext |-> st.ciphertext \o encryptedBlock.val,
                  previousBlock |-> encryptedBlock.val]))))

\* for (let i = 0; i < paddedPlaintext.length; i += BLOCK_SIZE_BYTES)
RECURSIVE encryptCBCLoop(_, _, _, _)
encryptCBCLoop(st, paddedPlaintext, k, i) ==
    IF i >= Len(paddedPlaintext)
    THEN Ok(st)
    ELSE Let(encryptCBCStep(st, paddedPlaintext, k, i), LAMBDA next :
         IF ~next.ok THEN next
         ELSE encryptCBCLoop(next.val, paddedPlaintext, k, i + BLOCK_SIZE_BYTES))

\* the optional parameter iv?: number[], omitted or given
NoIV == [given |-> FALSE, bytes |-> << >>]

GivenIV(bytes) == [given |-> TRUE, bytes |-> bytes]

\* the IV check left out
encryptCBCInitVectorUnchecked(ivArg, random) ==
    Ok(IF ivArg.given THEN ivArg.bytes
       ELSE generateRandomBytes(BLOCK_SIZE_BYTES, random) \o << >>)

\* const initVector = iv || generateRandomBytes(BLOCK_SIZE_BYTES), then its length check;
\* an array, even an empty one, is truthy: only an absent iv is replaced
encryptCBCInitVector(ivArg, random) ==
    Let(IF ivArg.given THEN ivArg.bytes
        ELSE generateRandomBytes(BLOCK_SIZE_BYTES, random) \o << >>, LAMBDA initVector :
    IF Len(initVector) # BLOCK_SIZE_BYTES
    THEN Err("Invalid IV length", << Len(initVector) >>)
    ELSE Ok(initVector))

\* the result array started with the IV in it
encryptCBCStartWithIV(initVector) ==
    [ciphertext |-> initVector, previousBlock |-> initVector]

\* const ciphertext = []; let previousBlock = [...initVector]
encryptCBCStart(initVector) ==
    [ciphertext |-> << >>, previousBlock |-> initVector]

encryptCBC(plaintext, k, ivArg, random) ==
    Let(encryptCBCInitVector(ivArg, random), LAMBDA initVector :
    IF ~initVector.ok THEN initVector
    ELSE Let(padPKCS7(plaintext, BLOCK_SIZE_BYTES), LAMBDA paddedPlaintext :
         Let(encryptCBCLoop(encryptCBCStart(initVector.val), paddedPlaintext, k, 0),
             LAMBDA done :
         IF ~done.ok THEN done
         ELSE Ok([iv |-> initVector.val, ciphertext |-> done.val.ciphertext]))))

\* chaining on the XOR of all cipher blocks so far
decryptCBCStepChainsOnAll(st, ciphertext, k, i) ==
    Let(Slice(ciphertext, i, i + BLOCK_SIZE_BYTES), LAMBDA block :
    Let(aesDecryptBlock(block, k), LAMBDA decryptedBlock :
    IF ~decryptedBlock.ok THEN decryptedBlock
    ELSE Let(xorBytes(decryptedBlock.val, st.previousBlock), LAMBDA xoredBlock :
         IF ~xoredBlock.ok THEN xoredBlock
         ELSE Ok([plaintext |-> st.plaintext \o xoredBlock.val,
                  previousBlock |-> xorBytes(block, st.previousBlock).val]))))

\* chaining on the raw output of the block decryption
decryptCBCStepChainsOnDecrypted(st, ciphertext, k, i) ==
    Let(Slice(ciphertext, i, i + BLOCK_SIZE_BYTES), LAMBDA block :
    Let(aesDecryptBlock(block, k), LAMBDA decryptedBlock :
    IF ~decryptedBlock.ok THEN decryptedBlock
    ELSE Let(xorBytes(decryptedBlock.val, st.previousBlock), LAMBDA xoredBlock :
         IF ~xoredBlock.ok THEN xoredBlock
         ELSE Ok([plaintext |-> st.plaintext \o xoredBlock.val,
                  previousBlock |-> decryptedBlock.val]))))

\* chaining on the decrypted output instead of the input cipher block
decryptCBCStepChainsOnPlain(st, ciphertext, k, i) ==
    Let(Slice(ciphertext, i, i + BLOCK_SIZE_BYTES), LAMBDA block :
    Let(aesDecryptBlock(block, k), LAMBDA decryptedBlock :
    IF ~decryptedBlock.ok THEN decryptedBlock
    ELSE Let(xorBytes(decryptedBlock.val, st.previousBlock), LAMBDA xoredBlock :
         IF ~xoredBlock.ok THEN xoredBlock
         ELSE Ok([plaintext |-> st.plaintext \o xoredBlock.val,
                  previousBlock |-> xoredBlock.val]))))

\* one iteration of the decryption loop at offset i; st is [plaintext, previousBlock]
decryptCBCStep(st, ciphertext, k, i) ==
    Let(Slice(ciphertext, i, i + BLOCK_SIZE_BYTES), LAMBDA block :
    Let(aesDecryptBlock(block, k), LAMBDA decryptedBlock :
    IF ~decryptedBlock.ok THEN decryptedBlock
    ELSE Let(xorBytes(decryptedBlock.val, st.previousBlock), LAMBDA xoredBlock :
         IF ~xoredBlock.ok THEN xoredBlock
         ELSE Ok([plaintext |-> st.plaintext \o xoredBlock.val,
                  previousBlock |-> block]))))

\* for (let i = 0; i < ciphertext.length; i += BLOCK_SIZE_BYTES)
RECURSIVE decryptCBCLoop(_, _, _, _)
decryptCBCLoop(st, ciphertext, k, i) ==
    IF i >= Len(ciphertext)
    THEN Ok(st)
    ELSE Let(decryptCBCStep(st, ciphertext, k, i), LAMBDA next :
         IF ~next.ok THEN next
         ELSE decryptCBCLoop(next.val, ciphertext, k, i + BLOCK_SIZE_BYTES))

decryptCBC(ciphertext, k, ivBytes) ==
    IF Len(ivBytes) # BLOCK_SIZE_BYTES
    THEN Err("Invalid IV length", << Len(ivBytes) >>)
    ELSE IF Len(ciphertext) % BLOCK_SIZE_BYTES # 0
    THEN Err("Invalid ciphertext length", << Len(ciphertext) >>)
    ELSE Let(decryptCBCLoop([plaintext |-> << >>, previousBlock |-> ivBytes],
                            ciphertext, k, 0), LAMBDA done :
         IF ~done.ok THEN done
         ELSE Let(unpadPKCS7(done.val.plaintext), LAMBDA unpadded :
              IF ~unpadded.ok
              THEN Err("Decryption failed: Invalid padding", << >>)
              ELSE unpadded))

\* the step-trace loop chaining on the XORed input instead of the block just encrypted
encryptCBCWithStepsStepChainsOnXor(st, paddedPlaintext, k, i) ==
    Let(Slice(paddedPlaintext, i, i + BLOCK_SIZE_BYTES), LAMBDA plainBlock :
    Let(xorBytes(plainBlock, st.previousBlock), LAMBDA xoredBlock :
    IF ~xoredBlock.ok THEN xoredBlock
    ELSE Let(aesEncryptBlock(xoredBlock.val, k), LAMBDA encryptedBlock :
         IF ~encryptedBlock.ok THEN encryptedBlock
         ELSE Ok([blocks |-> Append(st.blocks,
                                [index |-> i \div BLOCK_SIZE_BYTES,
                                 plainBlock |-> plainBlock,
                                 xorWithPrevious |-> xoredBlock.val,
                                 encrypted |-> encryptedBlock.val]),
                  ciphertext |-> st.ciphertext \o encryptedBlock.val,
                  previousBlock |-> xoredBlock.val]))))

\* one iteration of the loop of encryptCBCWithSteps at offset i;
\* st is [blocks, ciphertext, previousBlock]
encryptCBCWithStepsStep(st, paddedPlaintext, k, i) ==
    Let(Slice(paddedPlaintext, i, i + BLOCK_SIZE_BYTES), LAMBDA plainBlock :
    Let(xorBytes(plainBlock, st.previousBlock), LAMBDA xoredBlock :
    IF ~xoredBlock.ok THEN xoredBlock
    ELSE Let(aesEncryptBlock(xoredBlock.val, k), LAMBDA encryptedBlock :
         IF ~encryptedBlock.ok THEN encryptedBlock
         ELSE Ok([blocks |-> Append(st.blocks,
                                [index |-> i \div BLOCK_SIZE_BYTES,
                                 plainBlock |-> plainBlock,
                                 xorWithPrevious |-> xoredBlock.val,
                                 encrypted |-> encryptedBlock.val]),
                  ciphertext |-> st.ciphertext \o encryptedBlock.val,
                  previousBlock |-> encryptedBlock.val]))))

RECURSIVE encryptCBCWithStepsLoop(_, _, _, _)
encryptCBCWithStepsLoop(st, paddedPlaintext, k, i) ==
    IF i >= Len(paddedPlaintext)
    THEN Ok(st)
    ELSE Let(encryptCBCWithStepsStep(st, paddedPlaintext, k, i), LAMBDA next :
         IF ~next.ok THEN next
         ELSE encryptCBCWithStepsLoop(next.val, paddedPlaintext, k, i + BLOCK_SIZE_BYTES))

\* no check of the IV: a wrong length surfaces in xorBytes
encryptCBCWithSteps(plaintext, k, ivBytes) ==
    Let(padPKCS7(plaintext, BLOCK_SIZE_BYTES), LAMBDA paddedPlaintext :
    Let(encryptCBCWithStepsLoop([blocks |-> << >>, ciphertext |-> << >>,
                                 previousBlock |-> ivBytes],
                                paddedPlaintext, k, 0), LAMBDA done :
    IF ~done.ok THEN done
    ELSE Ok([iv |-> ivBytes,
             plaintext |-> plaintext,
             paddedPlaintext |-> paddedPlaintext,
             blocks |-> done.val.blocks,
             ciphertext |-> done.val.ciphertext])))

\* one iteration of the loop of decryptCBCWithSteps at offset i;
\* st is [blocks, paddedPlaintext, previousBlock]
decryptCBCWithStepsStep(st, ciphertext, k, i) ==
    Let(Slice(ciphertext, i, i + BLOCK_SIZE_BYTES), LAMBDA cipherBlock :
    Let(aesDecryptBlock(cipherBlock, k), LAMBDA decryptedBlock :
    IF ~decryptedBlock.ok THEN decryptedBlock
    ELSE Let(xorBytes(decryptedBlock.val, st.previousBlock), LAMBDA xoredBlock :
         IF ~xoredBlock.ok THEN xoredBlock
         ELSE Ok([blocks |-> Append(st.blocks,
                                [index |-> i \div BLOCK_SIZE_BYTES,
                                 cipherBlock |-> cipherBlock,
                                 decrypted |-> decryptedBlock.val,
                                 xorWithPrevious |-> xoredBlock.val]),
                  paddedPlaintext |-> st.paddedPlaintext \o xoredBlock.val,
                  previousBlock |-> cipherBlock]))))

RECURSIVE decryptCBCWithStepsLoop(_, _, _, _)
decryptCBCWithStepsLoop(st, ciphertext, k, i) ==
    IF i >= Len(ciphertext)
    THEN Ok(st)
    ELSE Let(decryptCBCWithStepsStep(st, ciphertext, k, i), LAMBDA next :
         IF ~next.ok THEN next
         ELSE decryptCBCWithStepsLoop(next.val, ciphertext, k, i + BLOCK_SIZE_BYTES))

\* catch (error): the message of whatever was thrown inside the try, interpolated
\* into the new Error
decryptCBCWithStepsCatch(error) ==
    Err("Decryption failed: ${error.message}", << error.err.msg, error.err.args >>)

\* no check of the IV or of the ciphertext length; loop and unpadPKCS7 inside one try
decryptCBCWithSteps(ciphertext, k, ivBytes) ==
    Let(decryptCBCWithStepsLoop([blocks |-> << >>, paddedPlaintext |-> << >>,
                                 previousBlock |-> ivBytes],
                                ciphertext, k, 0), LAMBDA done :
    IF ~done.ok THEN decryptCBCWithStepsCatch(done)
    ELSE Let(unpadPKCS7(done.val.paddedPlaintext), LAMBDA unpadded :
         IF ~unpadded.ok THEN decryptCBCWithStepsCatch(unpadded)
         ELSE Ok([iv |-> ivBytes,
                  ciphertext |-> ciphertext,
                  blocks |-> done.val.blocks,
                  paddedPlaintext |-> done.val.paddedPlaintext,
                  plaintext |-> unpadded.val])))

-----------------------------------------------------------------------------
(* index.ts: the text / hex boundary *)

\* the steps property of a result made without recordSteps
NoSteps == [recorded |-> FALSE]

encrypt(plaintext, keyHex, withSteps, random) ==
    Let(stringToBytes(plaintext), LAMBDA plaintextBytes :
    Let(hexToBytes(keyHex), LAMBDA keyBytes :
    IF ~isValidKeyLength(keyBytes)
    THEN Err("Invalid key length", << Len(keyBytes) >>)
    ELSE Let(generateRandomBytes(BLOCK_SIZE_BYTES, random) \o << >>, LAMBDA ivBytes :
         IF withSteps
         THEN Let(encryptCBCWithSteps(plaintextBytes, keyBytes, ivBytes), LAMBDA result :
              IF ~result.ok THEN result
              ELSE Ok([iv |-> bytesToHex(result.val.iv),
                       ciphertext |-> bytesToHex(result.val.ciphertext),
                       steps |-> [recorded |-> TRUE, result |-> result.val]]))
         ELSE Let(encryptCBC(plaintextBytes, keyBytes, GivenIV(ivBytes), << >>),
                  LAMBDA result :
              IF ~result.ok THEN result
              ELSE Ok([iv |-> bytesToHex(result.val.iv),
                       ciphertext |-> bytesToHex(result.val.ciphertext),
                       steps |-> NoSteps])))))

decrypt(ciphertextHex, keyHex, ivHex, withSteps) ==
    Let(hexToBytes(ciphertextHex), LAMBDA ciphertextBytes :
    Let(hexToBytes(keyHex), LAMBDA keyBytes :
    Let(hexToBytes(ivHex), LAMBDA ivBytes :
    IF ~isValidKeyLength(keyBytes)
    THEN Err("Invalid key length", << Len(keyBytes) >>)
    ELSE IF withSteps
         THEN Let(decryptCBCWithSteps(ciphertextBytes, keyBytes, ivBytes), LAMBDA result :
              IF ~result.ok THEN result
              ELSE Ok([plaintext |-> bytesToString(result.val.plaintext),
                       steps |-> [recorded |-> TRUE, result |-> result.val]]))
         ELSE Let(decryptCBC(ciphertextBytes, keyBytes, ivBytes), LAMBDA plaintextBytes :
              IF ~plaintextBytes.ok THEN plaintextBytes
              ELSE Ok([plaintext |-> bytesToString(plaintextBytes.val),
                       steps |-> NoSteps])))))

-----------------------------------------------------------------------------
(* Inputs of the calls, drawn from bounded families of byte arrays *)

MaxDataLen == 34    \* longest array given to padPKCS7 / unpadPKCS7

MaxTail == 17       \* longest run of equal bytes written at the end of such an array

MaxKeyLen == 33     \* longest key given to keyExpansion

MaxMsgLen == 33     \* longest plaintext given to encryptCBC

\* len bytes a, a + d, a + 2d, ... modulo 256
Pattern(len, a, d) == [i \in 1..len |-> (a + d * (i - 1)) % 256]

\* s with its last t bytes replaced by v
WithTail(s, t, v) == [i \in 1..Len(s) |-> IF i > Len(s) - t THEN v ELSE s[i]]

TailValues == {0, 1, 2, 3, 15, 16, 17, 255}

PadInputs ==
    {WithTail(Pattern(len, a, 1), t, v) :
        len \in 0..MaxDataLen, a \in {3, 250}, t \in 0..MaxTail, v \in TailValues}

KeyInputs ==
    {Pattern(len, a, d) : len \in 0..MaxKeyLen, a \in {0, 43, 255}, d \in {1, 7}}

BlockKeys ==
    {Pattern(len, a, d) : len \in {15, 16, 24, 32}, a \in {0, 43, 255}, d \in {1, 7}}

BlockInputs ==
    {Pattern(len, a, d) : len \in {0, 1, 15, 16, 17}, a \in {0, 99, 255}, d \in {0, 17}}

CBCKeys == {Pattern(len, 0, 1) : len \in {16, 24, 32}} \cup {Pattern(15, 0, 1), << >>}

CBCIVs == {GivenIV(Pattern(len, 160, 5)) : len \in {0, 15, 16, 17}} \cup {NoIV}

\* sixteen draws of Math.random(), the smallest and the largest value included
RandomDraws ==
    {[i \in 1..BLOCK_SIZE_BYTES |-> (a + d * (i - 1)) % RandDen] :
        a \in {0, RandDen - 1}, d \in {0, 61}}

CBCMessages == {Pattern(len, 72, 3) : len \in 0..MaxMsgLen}

\* the IV under which the ciphertexts handed to decryptCBC were produced
IV0 == Pattern(BLOCK_SIZE_BYTES, 160, 5)

\* sixteen zero bytes but for v at position pos (1-based)
Delta(pos, v) == [i \in 1..BLOCK_SIZE_BYTES |-> IF i = pos THEN v ELSE 0]

\* IV0 with one byte changed by whoever hands it to decryptCBC: the first decrypted
\* block changes by the same bits
TamperedIVs ==
    {GivenIV(xorBytes(IV0, Delta(pos, v)).val) :
        pos \in {14, 15, 16}, v \in {1, 2, 3, 4, 18}}

EngineIVs == (CBCIVs \ {NoIV}) \cup TamperedIVs

EngineMessages == {Pattern(len, 72, 3) : len \in {0, 5, 13, 16, MaxMsgLen}}

\* byte arrays that no encryption produced
RawCiphertexts == {Pattern(len, 201, 11) : len \in {0, 1, 15, 16, 17, 32}}

\* ciphertexts of a 13-byte and a 16-byte message under k and IV0
Ciphertexts(k) ==
    IF Len(k) \in {16, 24, 32}
    THEN {encryptCBC(Pattern(len, 72, 3), k, GivenIV(IV0), << >>).val.ciphertext :
            len \in {13, 16}}
    ELSE {}

\* s with the character at position pos (1-based) replaced by c
ReplaceAt(s, pos, c) == [i \in 1..Len(s) |-> IF i = pos THEN c ELSE s[i]]

\* s written in upper case
ToUpperHex(s) ==
    [i \in 1..Len(s) |-> IF IsHexDigit(s[i]) THEN UpperHexDigits[HexValue(s[i]) + 1] ELSE s[i]]

\* hex text of the keys 00 01 02 ... of 16, 24 and 32 bytes
KeyHex(len) == bytesToHex(Pattern(len, 0, 1))

\* keys a user may type: valid ones (in upper case, with a space, of odd length
\* too), one that is too short, and 32-character keys with one character that is
\* not a hex digit
ValidTextKeys ==
    {KeyHex(16), KeyHex(24), KeyHex(32), ToUpperHex(bytesToHex(Pattern(16, 171, 7))),
     << " " >> \o KeyHex(16), Tail(KeyHex(16))}

NonHexTextKeys ==
    {ReplaceAt(KeyHex(16), pos, c) : pos \in {1, 2, 31, 32}, c \in {"g", "x"}}

TextKeys == ValidTextKeys \cup {KeyHex(15)} \cup NonHexTextKeys

\* texts as code units: ASCII, Latin-1, and characters beyond code 255
TextInputs ==
    {Pattern(len, 72, 3) : len \in {0, 1, 15, 16, 17}}
        \cup {<< 233, 255, 0 >>, << 72, 937, 105 >>, << 8364 >>, << 256 >>}

\* hex text of a ciphertext of the 13-byte message under the key 00 01 ... 0f and
\* IV0, as typed or with one character that is not a hex digit
CiphertextHex ==
    bytesToHex(encryptCBC(Pattern(13, 72, 3), Pattern(16, 0, 1), GivenIV(IV0),
                          << >>).val.ciphertext)

TextCiphertexts ==
    {CiphertextHex} \cup {ReplaceAt(CiphertextHex, pos, "g") : pos \in {1, 2, 32}}

TextIVs == {bytesToHex(IV0)} \cup {ReplaceAt(bytesToHex(IV0), pos, "g") : pos \in {1, 2}}

TextDecryptKeys == {KeyHex(16), KeyHex(24)} \cup {ReplaceAt(KeyHex(16), pos, "g") : pos \in {1, 2}}

LoopKeys == {Pattern(len, 0, 1) : len \in {15, 16, 24, 32}}

LoopIVs == {GivenIV(IV0), GivenIV(Pattern(15, 160, 5))}

LoopMessages == {Pattern(len, 72, 3) : len \in {0, 13, 16, MaxMsgLen}}

LoopCiphertexts == {Pattern(len, 201, 11) : len \in {0, 17, 32}}

RoundsKeys == {Pattern(len, a, 1) : len \in {16, 24, 32}, a \in {0, 43}} \cup {Pattern(15, 0, 1)}

RoundsBlocks ==
    {Pattern(len, 99, 17) : len \in {0, 1, 15, 16, 17}} \cup {Pattern(BLOCK_SIZE_BYTES, 0, 0)}

\* the 4x4 state whose rows are the four quarters of sixteen bytes
RowsOf(bytes) == [r \in 1..4 |-> [c \in 1..4 |-> bytes[4 * (r - 1) + c]]]

\* states with sixteen different entries, with equal entries, and with entries
\* that are no bytes
RowStates ==
    {RowsOf(Pattern(16, a, d)) : a \in {0, 99, 200, 250}, d \in {0, 1, 5, 17, 64, 127}}
        \cup {RowsOf([n \in 1..16 |-> a * n]) : a \in {-1, 300}}

MaxSplitLen == 12   \* longest array given to splitIntoBlocks

MaxBlocks == 16     \* blocks splitIntoBlocks may push before its loop is cut off

SplitInputs == {Pattern(len, 3, 1) : len \in 0..MaxSplitLen}

\* block sizes a caller may pass, zero included
SplitBlockSizes == {0, 1, 2, 3, 5, 16, 17}

LocalityKeys == {Pattern(len, 0, 1) : len \in {16, 24, 32}}

LocalityIVs == {GivenIV(IV0), GivenIV(Pattern(BLOCK_SIZE_BYTES, 7, 13))}

\* ciphertexts of three and four blocks under k and IV0, and four blocks that no
\* encryption produced
LocalityCiphertexts(k) ==
    {encryptCBC(Pattern(len, 72, 3), k, GivenIV(IV0), << >>).val.ciphertext :
        len \in {MaxMsgLen, MaxMsgLen + 15}}
        \cup {Pattern(4 * BLOCK_SIZE_BYTES, 201, 11)}

\* c with the byte at position pos (1-based) of its block j (0-based) XORed with v
TamperAt(c, j, pos, v) ==
    [n \in 1..Len(c) |->
        IF n = j * BLOCK_SIZE_BYTES + pos THEN Xor(c[n], v) ELSE c[n]]

-----------------------------------------------------------------------------
(* The calling session: one call on the inputs, then the inverse call on its result *)

InitPad ==
    /\ pc = "padReady"
    /\ key = << >>
    /\ iv = NoIV
    /\ rnd = << >>
    /\ data \in PadInputs
    /\ out = NoResult
    /\ back = NoResult
    /\ recordSteps = FALSE
    /\ loop = NoLoop

InitKey ==
    /\ pc = "keyReady"
    /\ key \in KeyInputs
    /\ iv = NoIV
    /\ rnd = << >>
    /\ data = << >>
    /\ out = NoResult
    /\ back = NoResult
    /\ recordSteps = FALSE
    /\ loop = NoLoop

InitBlock ==
    /\ pc = "blockReady"
    /\ key \in BlockKeys
    /\ iv = NoIV
    /\ rnd = << >>
    /\ data \in BlockInputs
    /\ out = NoResult
    /\ back = NoResult
    /\ recordSteps = FALSE
    /\ loop = NoLoop

InitCBC ==
    /\ pc = "cbcReady"
    /\ key \in CBCKeys
    /\ iv \in CBCIVs
    /\ rnd \in (IF iv.given THEN {<< >>} ELSE RandomDraws)
    /\ data \in CBCMessages
    /\ out = NoResult
    /\ back = NoResult
    /\ recordSteps = FALSE
    /\ loop = NoLoop

InitEngine ==
    /\ pc = "engineReady"
    /\ key \in CBCKeys
    /\ iv \in EngineIVs
    /\ rnd = << >>
    /\ data \in EngineMessages \cup RawCiphertexts \cup Ciphertexts(key)
    /\ out = NoResult
    /\ back = NoResult
    /\ recordSteps = FALSE
    /\ loop = NoLoop

\* a text and a hex key for encrypt
InitTextEncrypt ==
    /\ pc = "textReady"
    /\ key \in TextKeys
    /\ iv = NoIV
    /\ rnd \in RandomDraws
    /\ data \in TextInputs
    /\ out = NoResult
    /\ back = NoResult
    /\ recordSteps \in BOOLEAN
    /\ loop = NoLoop

\* hex ciphertext, key and IV for decrypt
InitTextDecrypt ==
    /\ pc = "textReady"
    /\ key \in TextDecryptKeys
    /\ iv \in {GivenIV(h) : h \in TextIVs}
    /\ rnd = << >>
    /\ data \in TextCiphertexts
    /\ out = NoResult
    /\ back = NoResult
    /\ recordSteps \in BOOLEAN
    /\ loop = NoLoop

InitText == InitTextEncrypt \/ InitTextDecrypt

InitLoop ==
    /\ pc = "loopReady"
    /\ key \in LoopKeys
    /\ iv \in LoopIVs
    /\ rnd = << >>
    /\ data \in LoopMessages \cup LoopCiphertexts \cup Ciphertexts(key)
    /\ out = NoResult
    /\ back = NoResult
    /\ recordSteps = FALSE
    /\ loop = NoLoop

\* a ciphertext of several blocks, to be decrypted as it is and with one block changed
InitLocality ==
    /\ pc = "localityReady"
    /\ key \in LocalityKeys
    /\ iv \in LocalityIVs
    /\ rnd = << >>
    /\ data \in LocalityCiphertexts(key)
    /\ out = NoResult
    /\ back = NoResult
    /\ recordSteps = FALSE
    /\ loop = NoLoop

\* a block and a key for aesEncryptBlock and aesDecryptBlock followed call by call
InitRounds ==
    /\ pc = "roundsReady"
    /\ key \in RoundsKeys
    /\ iv = NoIV
    /\ rnd = << >>
    /\ data \in RoundsBlocks
    /\ out = NoResult
    /\ back = NoResult
    /\ recordSteps = FALSE
    /\ loop = NoLoop

\* a state for shiftRows and invShiftRows
InitRows ==
    /\ pc = "rowsReady"
    /\ key = << >>
    /\ iv = NoIV
    /\ rnd = << >>
    /\ data \in RowStates
    /\ out = NoResult
    /\ back = NoResult
    /\ recordSteps = FALSE
    /\ loop = NoLoop

\* an array for splitIntoBlocks
InitSplit ==
    /\ pc = "splitReady"
    /\ key = << >>
    /\ iv = NoIV
    /\ rnd = << >>
    /\ data \in SplitInputs
    /\ out = NoResult
    /\ back = NoResult
    /\ recordSteps = FALSE
    /\ loop = NoLoop

Init ==
    \/ InitPad \/ InitKey \/ InitBlock \/ InitCBC \/ InitEngine \/ InitText \/ InitLoop
    \/ InitLocality \/ InitRounds \/ InitRows \/ InitSplit

\* the padding bytes pushed onto the argument itself
PadInPlace ==
    /\ pc = "padReady"
    /\ data' = padPKCS7(data, 16)
    /\ out' = Ok(data')
    /\ pc' = "padded"
    /\ UNCHANGED << key, iv, rnd, back, recordSteps, loop >>

Pad ==
    /\ pc = "padReady"
    /\ out' = Ok(padPKCS7(data, 16))
    /\ pc' = "padded"
    /\ UNCHANGED << key, iv, data, rnd, back, recordSteps, loop >>

Unpad ==
    /\ pc = "padded"
    /\ back' = unpadPKCS7(out.val)
    /\ pc' = "unpadded"
    /\ UNCHANGED << key, iv, data, rnd, out, recordSteps, loop >>

UnpadRaw ==
    /\ pc = "padReady"
    /\ out' = unpadPKCS7(data)
    /\ pc' = "unpaddedRaw"
    /\ UNCHANGED << key, iv, data, rnd, back, recordSteps, loop >>

ExpandKey ==
    /\ pc = "keyReady"
    /\ out' = keyExpansion(key)
    /\ pc' = "expanded"
    /\ UNCHANGED << key, iv, data, rnd, back, recordSteps, loop >>

EncryptBlock ==
    /\ pc = "blockReady"
    /\ out' = aesEncryptBlock(data, key)
    /\ pc' = "blockEncrypted"
    /\ UNCHANGED << key, iv, data, rnd, back, recordSteps, loop >>

DecryptBlock ==
    /\ pc = "blockEncrypted"
    /\ out.ok
    /\ back' = aesDecryptBlock(out.val, key)
    /\ pc' = "blockDecrypted"
    /\ UNCHANGED << key, iv, data, rnd, out, recordSteps, loop >>

EncryptCBC ==
    /\ pc \in {"cbcReady", "engineReady"}
    /\ out' = encryptCBC(data, key, iv, rnd)
    /\ pc' = "encrypted"
    /\ UNCHANGED << key, iv, data, rnd, back, recordSteps, loop >>

DecryptCBC ==
    /\ pc = "encrypted"
    /\ out.ok
    /\ back' = decryptCBC(out.val.ciphertext, key, out.val.iv)
    /\ pc' = "decrypted"
    /\ UNCHANGED << key, iv, data, rnd, out, recordSteps, loop >>

\* the step-trace variant called on the arguments encryptCBC was called on
EncryptCBCWithSteps ==
    /\ pc = "encrypted"
    /\ iv.given
    /\ back' = encryptCBCWithSteps(data, key, iv.bytes)
    /\ pc' = "encryptedBoth"
    /\ UNCHANGED << key, iv, data, rnd, out, recordSteps, loop >>

\* decryptCBC called on any ciphertext, key and IV
DecryptRaw ==
    /\ pc = "engineReady"
    /\ iv.given
    /\ out' = decryptCBC(data, key, iv.bytes)
    /\ pc' = "decryptedRaw"
    /\ UNCHANGED << key, iv, data, rnd, back, recordSteps, loop >>

\* the step-trace variant called on the arguments decryptCBC was called on
DecryptRawWithSteps ==
    /\ pc = "decryptedRaw"
    /\ back' = decryptCBCWithSteps(data, key, iv.bytes)
    /\ pc' = "decryptedBoth"
    /\ UNCHANGED << key, iv, data, rnd, out, recordSteps, loop >>

\* encrypt(plaintext, key, recordSteps) on a text
TextEncrypt ==
    /\ pc = "textReady"
    /\ ~iv.given
    /\ out' = encrypt(data, key, recordSteps, rnd)
    /\ pc' = "textEncrypted"
    /\ UNCHANGED << key, iv, data, rnd, back, recordSteps, loop >>

\* decrypt(r.ciphertext, key, r.iv, recordSteps) on the result r of encrypt
TextDecrypt ==
    /\ pc = "textEncrypted"
    /\ out.ok
    /\ \E withSteps \in BOOLEAN :
          /\ back' = decrypt(out.val.ciphertext, key, out.val.iv, withSteps)
          /\ recordSteps' = withSteps
    /\ pc' = "textDecrypted"
    /\ UNCHANGED << key, iv, data, rnd, out, loop >>

\* decrypt(ciphertext, key, iv, recordSteps) on hex text as typed
TextDecryptRaw ==
    /\ pc = "textReady"
    /\ iv.given
    /\ out' = decrypt(data, key, iv.bytes, recordSteps)
    /\ pc' = "textDecryptedRaw"
    /\ UNCHANGED << key, iv, data, rnd, back, recordSteps, loop >>

\* encryptCBC up to its loop: the IV chosen and checked, the plaintext padded
EncryptCBCEnter ==
    /\ pc = "loopReady"
    /\ LET initVector == encryptCBCInitVector(iv, rnd)
       IN  IF ~initVector.ok
           THEN /\ out' = initVector
                /\ pc' = "encrypted"
                /\ loop' = loop
           ELSE /\ loop' = [i |-> 0,
                            previousBlock |-> initVector.val,
                            input |-> padPKCS7(data, BLOCK_SIZE_BYTES),
                            output |-> encryptCBCStart(initVector.val).ciphertext,
                            keyExpansions |-> 0]
                /\ pc' = "encryptLoop"
                /\ out' = out
    /\ UNCHANGED << key, iv, data, rnd, back, recordSteps >>

\* one iteration of the loop of encryptCBC; its call of aesEncryptBlock begins with
\* a call of keyExpansion
EncryptCBCIterate ==
    /\ pc = "encryptLoop"
    /\ loop.i < Len(loop.input)
    /\ LET next == encryptCBCStep([ciphertext |-> loop.output,
                                   previousBlock |-> loop.previousBlock],
                                  loop.input, key, loop.i)
       IN  IF ~next.ok
           THEN /\ out' = next
                /\ pc' = "encrypted"
                /\ loop' = [loop EXCEPT !.keyExpansions = loop.keyExpansions + 1]
           ELSE /\ loop' = [loop EXCEPT !.i = loop.i + BLOCK_SIZE_BYTES,
                                        !.previousBlock = next.val.previousBlock,
                                        !.output = next.val.ciphertext,
                                        !.keyExpansions = loop.keyExpansions + 1]
                /\ pc' = pc
                /\ out' = out
    /\ UNCHANGED << key, iv, data, rnd, back, recordSteps >>

\* the loop of encryptCBC left: return { iv: initVector, ciphertext }
EncryptCBCReturn ==
    /\ pc = "encryptLoop"
    /\ loop.i >= Len(loop.input)
    /\ out' = Ok([iv |-> encryptCBCInitVector(iv, rnd).val, ciphertext |-> loop.output])
    /\ pc' = "encrypted"
    /\ UNCHANGED << key, iv, data, rnd, back, recordSteps, loop >>

\* decryptCBC up to its loop: the IV and the ciphertext length checked
DecryptCBCEnter ==
    /\ pc = "loopReady"
    /\ iv.given
    /\ IF Len(iv.bytes) # BLOCK_SIZE_BYTES
       THEN /\ out' = Err("Invalid IV length", << Len(iv.bytes) >>)
            /\ pc' = "decryptedRaw"
            /\ loop' = loop
       ELSE IF Len(data) % BLOCK_SIZE_BYTES # 0
       THEN /\ out' = Err("Invalid ciphertext length", << Len(data) >>)
            /\ pc' = "decryptedRaw"
            /\ loop' = loop
       ELSE /\ loop' = [i |-> 0, previousBlock |-> iv.bytes,
                        input |-> data, output |-> << >>, keyExpansions |-> 0]
            /\ pc' = "decryptLoop"
            /\ out' = out
    /\ UNCHANGED << key, iv, data, rnd, back, recordSteps >>

\* one iteration of the loop of decryptCBC; its call of aesDecryptBlock begins with
\* a call of keyExpansion
DecryptCBCIterate ==
    /\ pc = "decryptLoop"
    /\ loop.i < Len(loop.input)
    /\ LET next == decryptCBCStep([plaintext |-> loop.output,
                                   previousBlock |-> loop.previousBlock],
                                  loop.input, key, loop.i)
       IN  IF ~next.ok
           THEN /\ out' = next
                /\ pc' = "decryptedRaw"
                /\ loop' = [loop EXCEPT !.keyExpansions = loop.keyExpansions + 1]
           ELSE /\ loop' = [loop EXCEPT !.i = loop.i + BLOCK_SIZE_BYTES,
                                        !.previousBlock = next.val.previousBlock,
                                        !.output = next.val.plaintext,
                                        !.keyExpansions = loop.keyExpansions + 1]
                /\ pc' = pc
                /\ out' = out
    /\ UNCHANGED << key, iv, data, rnd, back, recordSteps >>

\* the loop of decryptCBC left: unpadPKCS7 inside try / catch
DecryptCBCReturn ==
    /\ pc = "decryptLoop"
    /\ loop.i >= Len(loop.input)
    /\ LET unpadded == unpadPKCS7(loop.output)
       IN  out' = IF ~unpadded.ok
                  THEN Err("Decryption failed: Invalid padding", << >>)
                  ELSE unpadded
    /\ pc' = "decryptedRaw"
    /\ UNCHANGED << key, iv, data, rnd, back, recordSteps, loop >>

\* decryptCBC on the ciphertext; the plaintext array as the loop leaves it, before
\* unpadPKCS7, is kept in loop.output
DecryptFirst ==
    /\ pc = "localityReady"
    /\ out' = decryptCBC(data, key, iv.bytes)
    /\ LET done == decryptCBCLoop([plaintext |-> << >>, previousBlock |-> iv.bytes],
                                  data, key, 0)
       IN  loop' = [i |-> Len(data),
                    previousBlock |-> done.val.previousBlock,
                    input |-> data,
                    output |-> done.val.plaintext,
                    keyExpansions |-> Len(data) \div BLOCK_SIZE_BYTES]
    /\ pc' = "localityFirst"
    /\ UNCHANGED << key, iv, data, rnd, back, recordSteps >>

\* decryptCBC with the same key and IV on a ciphertext that differs from the first
\* in one block; its argument and its plaintext array before unpadPKCS7 are kept
\* next to its result
DecryptSecond ==
    /\ pc = "localityFirst"
    /\ \E j \in 0..((Len(data) \div BLOCK_SIZE_BYTES) - 1), pos \in {1, BLOCK_SIZE_BYTES},
          v \in {1, 255} :
          LET other == TamperAt(data, j, pos, v)
              done == decryptCBCLoop([plaintext |-> << >>, previousBlock |-> iv.bytes],
                                     other, key, 0)
          IN  back' = Ok([ciphertext |-> other,
                          paddedPlaintext |-> done.val.plaintext,
                          result |-> decryptCBC(other, key, iv.bytes)])
    /\ pc' = "localitySecond"
    /\ UNCHANGED << key, iv, data, rnd, out, recordSteps, loop >>

\* aesEncryptBlock up to its loop: the round keys, the state, the initial addRoundKey
EncryptBlockEnter ==
    /\ pc = "roundsReady"
    /\ LET roundKeys == keyExpansion(key)
           state == bytesToState(data)
       IN  IF ~roundKeys.ok \/ ~state.ok
           THEN /\ out' = IF ~roundKeys.ok THEN roundKeys ELSE state
                /\ pc' = "roundsEncrypted"
                /\ loop' = loop
           ELSE /\ loop' = [round |-> 1,
                            numRounds |-> Len(roundKeys.val) - 1,
                            roundKeys |-> roundKeys.val,
                            isLast |-> FALSE,
                            at |-> 1,
                            state |-> addRoundKey(state.val, roundKeys.val[0 + 1]),
                            applied |-> << Applied("addRoundKey", 0) >>]
                /\ pc' = "encryptRound"
                /\ out' = out
    /\ UNCHANGED << key, iv, data, rnd, back, recordSteps >>

\* the next call inside aesEncryptionRound; after its last one the loop of
\* aesEncryptBlock goes on, or is left for the final round, or the final round is over
EncryptRoundStep ==
    /\ pc = "encryptRound"
    /\ LET steps == aesEncryptionRoundSteps(loop.isLast)
           step == steps[loop.at]
           newState == roundStep(step, loop.state, loop.roundKeys[loop.round + 1])
           applied == Append(loop.applied, Applied(step, loop.round))
       IN  IF loop.at < Len(steps)
           THEN /\ loop' = [loop EXCEPT !.at = loop.at + 1, !.state = newState,
                                        !.applied = applied]
                /\ pc' = pc
           ELSE IF loop.isLast
           THEN /\ loop' = [loop EXCEPT !.state = newState, !.applied = applied]
                /\ pc' = "encryptRoundsDone"
           ELSE /\ loop' = [loop EXCEPT !.round = loop.round + 1,
                                        !.isLast = ~(loop.round + 1 < loop.numRounds),
                                        !.at = 1, !.state = newState, !.applied = applied]
                /\ pc' = pc
    /\ UNCHANGED << key, iv, data, rnd, out, back, recordSteps >>

\* return stateToBytes(state)
EncryptBlockReturn ==
    /\ pc = "encryptRoundsDone"
    /\ out' = Ok(stateToBytes(loop.state))
    /\ pc' = "roundsEncrypted"
    /\ UNCHANGED << key, iv, data, rnd, back, recordSteps, loop >>

\* aesDecryptBlock up to its loop: the round keys, the state, the initial addRoundKey
DecryptBlockEnter ==
    /\ pc = "roundsReady"
    /\ LET roundKeys == keyExpansion(key)
           state == bytesToState(data)
       IN  IF ~roundKeys.ok \/ ~state.ok
           THEN /\ out' = IF ~roundKeys.ok THEN roundKeys ELSE state
                /\ pc' = "roundsDecrypted"
                /\ loop' = loop
           ELSE LET numRounds == Len(roundKeys.val) - 1
                IN  /\ loop' = [round |-> numRounds - 1,
                                numRounds |-> numRounds,
                                roundKeys |-> roundKeys.val,
                                isLast |-> ~(numRounds - 1 > 0),
                                at |-> 1,
                                state |-> addRoundKey(state.val, roundKeys.val[numRounds + 1]),
                                applied |-> << Applied("addRoundKey", numRounds) >>]
                    /\ pc' = "decryptRound"
                    /\ out' = out
    /\ UNCHANGED << key, iv, data, rnd, back, recordSteps >>

\* the next call inside aesDecryptionRound; after its last one the loop of
\* aesDecryptBlock goes on, or is left for the round with round key 0, or that
\* round is over
DecryptRoundStep ==
    /\ pc = "decryptRound"
    /\ LET steps == aesDecryptionRoundSteps(loop.isLast)
           step == steps[loop.at]
           newState == roundStep(step, loop.state, loop.roundKeys[loop.round + 1])
           applied == Append(loop.applied, Applied(step, loop.round))
       IN  IF loop.at < Len(steps)
           THEN /\ loop' = [loop EXCEPT !.at = loop.at + 1, !.state = newState,
                                        !.applied = applied]
                /\ pc' = pc
           ELSE IF loop.isLast
           THEN /\ loop' = [loop EXCEPT !.state = newState, !.applied = applied]
                /\ pc' = "decryptRoundsDone"
           ELSE /\ loop' = [loop EXCEPT !.round = loop.round - 1,
                                        !.isLast = ~(loop.round - 1 > 0),
                                        !.at = 1, !.state = newState, !.applied = applied]
                /\ pc' = pc
    /\ UNCHANGED << key, iv, data, rnd, out, back, recordSteps >>

\* return stateToBytes(state)
DecryptBlockReturn ==
    /\ pc = "decryptRoundsDone"
    /\ out' = Ok(stateToBytes(loop.state))
    /\ pc' = "roundsDecrypted"
    /\ UNCHANGED << key, iv, data, rnd, back, recordSteps, loop >>

ShiftRows ==
    /\ pc = "rowsReady"
    /\ out' = Ok(shiftRows(data))
    /\ pc' = "shifted"
    /\ UNCHANGED << key, iv, data, rnd, back, recordSteps, loop >>

InvShiftRows ==
    /\ pc = "rowsReady"
    /\ out' = Ok(invShiftRows(data))
    /\ pc' = "invShifted"
    /\ UNCHANGED << key, iv, data, rnd, back, recordSteps, loop >>

\* invShiftRows on the result of shiftRows
InvShiftRowsBack ==
    /\ pc = "shifted"
    /\ back' = Ok(invShiftRows(out.val))
    /\ pc' = "shiftedBack"
    /\ UNCHANGED << key, iv, data, rnd, out, recordSteps, loop >>

\* shiftRows on the result of invShiftRows
ShiftRowsBack ==
    /\ pc = "invShifted"
    /\ back' = Ok(shiftRows(out.val))
    /\ pc' = "invShiftedBack"
    /\ UNCHANGED << key, iv, data, rnd, out, recordSteps, loop >>

\* splitIntoBlocks(bytes, blockSize) up to its loop: const blocks = []; let i = 0
SplitEnter ==
    /\ pc = "splitReady"
    /\ \E blockSize \in SplitBlockSizes :
          loop' = [i |-> 0, blockSize |-> blockSize, blocks |-> << >>]
    /\ pc' = "splitLoop"
    /\ UNCHANGED << key, iv, data, rnd, out, back, recordSteps >>

\* one iteration: blocks.push(bytes.slice(i, i + blockSize)); i += blockSize
SplitIterate ==
    /\ pc = "splitLoop"
    /\ loop.i < Len(data)
    /\ Len(loop.blocks) < MaxBlocks
    /\ loop' = [loop EXCEPT !.i = loop.i + loop.blockSize,
                            !.blocks = Append(loop.blocks,
                                              Slice(data, loop.i, loop.i + loop.blockSize))]
    /\ UNCHANGED << pc, key, iv, data, rnd, out, back, recordSteps >>

\* the loop left: return blocks
SplitReturn ==
    /\ pc = "splitLoop"
    /\ ~(loop.i < Len(data))
    /\ out' = Ok(loop.blocks)
    /\ pc' = "splitReturned"
    /\ UNCHANGED << key, iv, data, rnd, back, recordSteps, loop >>

\* joinBlocks on the blocks returned
JoinBlocks ==
    /\ pc = "splitReturned"
    /\ back' = Ok(joinBlocks(out.val))
    /\ pc' = "joined"
    /\ UNCHANGED << key, iv, data, rnd, out, recordSteps, loop >>

NextPad == Pad \/ Unpad \/ UnpadRaw

NextKey == ExpandKey

NextBlock == EncryptBlock \/ DecryptBlock

NextCBC == EncryptCBC \/ DecryptCBC

NextEngine == EncryptCBC \/ EncryptCBCWithSteps \/ DecryptRaw \/ DecryptRawWithSteps

NextText == TextEncrypt \/ TextDecrypt \/ TextDecryptRaw

NextLoop ==
    \/ EncryptCBCEnter \/ EncryptCBCIterate \/ EncryptCBCReturn
    \/ DecryptCBCEnter \/ DecryptCBCIterate \/ DecryptCBCReturn
    \/ DecryptRawWithSteps

NextLocality == DecryptFirst \/ DecryptSecond

NextRounds ==
    \/ EncryptBlockEnter \/ EncryptRoundStep \/ EncryptBlockReturn
    \/ DecryptBlockEnter \/ DecryptRoundStep \/ DecryptBlockReturn

NextRows == ShiftRows \/ InvShiftRows \/ InvShiftRowsBack \/ ShiftRowsBack

NextSplit == SplitEnter \/ SplitIterate \/ SplitReturn \/ JoinBlocks

Next ==
    \/ NextPad \/ NextKey \/ NextBlock \/ NextCBC \/ NextEngine \/ NextText \/ NextLoop
    \/ NextLocality \/ NextRounds \/ NextRows \/ NextSplit

SpecPad == InitPad /\ [][NextPad]_vars

SpecKey == InitKey /\ [][NextKey]_vars

SpecBlock == InitBlock /\ [][NextBlock]_vars

SpecCBC == InitCBC /\ [][NextCBC]_vars

SpecEngine == InitEngine /\ [][NextEngine]_vars

SpecText == InitText /\ [][NextText]_vars

SpecLoop == InitLoop /\ [][NextLoop]_vars

SpecLocality == InitLocality /\ [][NextLocality]_vars

SpecRounds == InitRounds /\ [][NextRounds]_vars

SpecRows == InitRows /\ [][NextRows]_vars

\* the calls of the engine on byte arrays: padding, key expansion, the block
\* functions, CBC whole and iteration by iteration, and the step-trace variants
InitCalls == InitPad \/ InitKey \/ InitBlock \/ InitEngine \/ InitLoop

NextCalls == NextPad \/ NextKey \/ NextBlock \/ NextEngine \/ NextLoop

SpecCalls == InitCalls /\ [][NextCalls]_vars

\* the loops of encryptCBC, decryptCBC and splitIntoBlocks, each call running on
\* for as long as it has a next step: JavaScript runs a call to its end
InitCompletion == InitLoop \/ InitSplit

NextCompletion == NextLoop \/ NextSplit

SpecCompletion == InitCompletion /\ [][NextCompletion]_vars /\ WF_vars(NextCompletion)

Spec == Init /\ [][Next]_vars

-----------------------------------------------------------------------------
(* Properties of the calls *)

ValidKey == Len(key) \in {16, 24, 32}

ValidIV == iv.given /\ Len(iv.bytes) = BLOCK_SIZE_BYTES

IsByte(b) == b \in 0..255

\* the two kinds of failure of unpadPKCS7, told apart by the message of the Error thrown
IsEmptyInput(r) == ~r.ok /\ r.err.msg = "Cannot unpad empty data"

IsInvalidPadding(r) == ~r.ok /\ r.err.msg \in {"Invalid padding length", "Invalid padding"}

\* C1: for a key of 16, 24 or 32 bytes, a 16-byte IV and any message, encryptCBC
\* succeeds and decryptCBC of its ciphertext under the same key and IV returns
\* exactly the message.
CBCRoundTrip ==
    (pc \in {"encrypted", "decrypted"} /\ ValidKey /\ ValidIV) =>
        /\ out.ok
        /\ pc = "decrypted" => back = Ok(data)

CBCRoundTripWitness ==
    /\ pc = "decrypted"
    /\ ValidKey
    /\ ValidIV
    /\ Len(data) = 32
    /\ Len(out.val.ciphertext) = 48
    /\ back = Ok(data)

\* C2: for a key of 16, 24 or 32 bytes and a 16-byte block, aesEncryptBlock
\* succeeds and aesDecryptBlock of its result under the same key is the block.
BlockRoundTrip ==
    (pc \in {"blockEncrypted", "blockDecrypted"} /\ ValidKey
        /\ Len(data) = BLOCK_SIZE_BYTES) =>
        /\ out.ok
        /\ pc = "blockDecrypted" => back = Ok(data)

BlockRoundTripWitness ==
    /\ pc = "blockDecrypted"
    /\ Len(key) = 24
    /\ Len(data) = BLOCK_SIZE_BYTES
    /\ out.val # data
    /\ back = Ok(data)

KatKey == << 0, 1, 2, 3, 4, 5, 6, 7, 8, 9, 10, 11, 12, 13, 14, 15 >>

KatBlock ==
    << 0, 17, 34, 51, 68, 85, 102, 119, 136, 153, 170, 187, 204, 221, 238, 255 >>

KatCipher ==
    << 105, 196, 224, 216, 106, 123, 4, 48, 216, 205, 183, 128, 112, 180, 197, 90 >>

\* C3: aesEncryptBlock of the block 00112233445566778899aabbccddeeff under the key
\* 000102030405060708090a0b0c0d0e0f is 69c4e0d86a7b0430d8cdb78070b4c55a.
KnownAnswer ==
    (pc = "blockEncrypted" /\ key = KatKey /\ data = KatBlock) => out = Ok(KatCipher)

KnownAnswerWitness ==
    /\ pc = "blockEncrypted"
    /\ key = KatKey
    /\ data = KatBlock
    /\ out.ok
    /\ Len(out.val) = BLOCK_SIZE_BYTES
    /\ out.val[1] = 105

\* C4: padPKCS7(data, 16) is data followed by n = 16 - (|data| mod 16) bytes of
\* value n, with n in 1..16; its length is a positive multiple of 16 and at
\* least |data| + 1.
PadShape ==
    pc \in {"padded", "unpadded"} =>
        LET n == 16 - (Len(data) % 16)
        IN  /\ out.ok
            /\ n \in 1..16
            /\ Len(out.val) = Len(data) + n
            /\ \A i \in 1..Len(data) : out.val[i] = data[i]
            /\ \A i \in (Len(data) + 1)..Len(out.val) : out.val[i] = n
            /\ Len(out.val) % 16 = 0
            /\ Len(out.val) > 0
            /\ Len(out.val) >= Len(data) + 1

PadShapeWitness ==
    /\ pc = "padded"
    /\ Len(data) = 32
    /\ Len(out.val) = 48
    /\ \A i \in 33..48 : out.val[i] = 16

\* C5: unpadPKCS7(padPKCS7(m, 16)) is m for every byte sequence m, the empty one
\* and those of a length that is a multiple of 16 included.
PadRoundTrip == pc = "unpadded" => back = Ok(data)

PadRoundTripWitness ==
    /\ pc = "unpadded"
    /\ Len(data) = 16
    /\ Len(out.val) = 32
    /\ back = Ok(data)

\* C6: unpadPKCS7 fails with the empty-input error on empty data; with n the
\* last byte, it fails with an invalid-padding error when n = 0, n > 16,
\* n > |data| or one of the last n bytes is not n; in every other case it
\* returns the data without its last n bytes.
UnpadCases ==
    pc = "unpaddedRaw" =>
        IF Len(data) = 0
        THEN IsEmptyInput(out)
        ELSE LET n == data[Len(data)]
             IN  IF \/ n = 0
                    \/ n > 16
                    \/ n > Len(data)
                    \/ \E i \in (Len(data) - n + 1)..Len(data) : data[i] # n
                 THEN IsInvalidPadding(out)
                 ELSE out = Ok(SubSeq(data, 1, Len(data) - n))

\* the last byte and its neighbour are a good padding of 3 bytes, the third is not
UnpadCasesWitness ==
    /\ pc = "unpaddedRaw"
    /\ Len(data) >= 3
    /\ data[Len(data)] = 3
    /\ data[Len(data) - 1] = 3
    /\ data[Len(data) - 2] # 3
    /\ IsInvalidPadding(out)

KeyLengthRejected ==
    (pc = "expanded" /\ ~ValidKey) =>
        /\ ~out.ok
        /\ out.err.msg = "Invalid key length"
        /\ out.err.args = << Len(key) >>

KeyLengthRejectedWitness ==
    /\ pc = "expanded"
    /\ Len(key) = 33
    /\ ~out.ok
    /\ out.err.msg = "Invalid key length"

\* C9: keyExpansion of a key of 16, 24 or 32 bytes returns 11, 13 or 15 round
\* keys respectively, each of exactly 16 bytes.
RoundKeyCount ==
    (pc = "expanded" /\ ValidKey) =>
        /\ out.ok
        /\ Len(out.val) = (CASE Len(key) = 16 -> 11
                             [] Len(key) = 24 -> 13
                             [] Len(key) = 32 -> 15)
        /\ \A r \in 1..Len(out.val) : Len(out.val[r]) = 16

RoundKeyCountWitness ==
    /\ pc = "expanded"
    /\ Len(key) = 24
    /\ out.ok
    /\ Len(out.val) = 13
    /\ Len(out.val[13]) = 16

\* C10: encryptCBC given an IV whose length is not 16 fails with the
\* invalid-IV-length error; given a 16-byte IV, a successful call returns that
\* IV; given no IV, it never fails on the IV and, with a valid key, returns a
\* generated IV of 16 bytes, each in 0..255.
IVHandling ==
    pc \in {"encrypted", "decrypted"} =>
        /\ (iv.given /\ Len(iv.bytes) # 16) =>
              /\ ~out.ok
              /\ out.err.msg = "Invalid IV length"
              /\ out.err.args = << Len(iv.bytes) >>
        /\ (ValidIV /\ out.ok) => out.val.iv = iv.bytes
        /\ ~iv.given =>
              /\ ValidKey => out.ok
              /\ ~out.ok => out.err.msg # "Invalid IV length"
              /\ out.ok =>
                    /\ Len(out.val.iv) = 16
                    /\ \A i \in 1..16 : IsByte(out.val.iv[i])

IVHandlingWitness ==
    /\ pc = "encrypted"
    /\ iv.given
    /\ Len(iv.bytes) = 15
    /\ ~out.ok
    /\ out.err.msg = "Invalid IV length"

\* the kinds of failure of the CBC calls, told apart by the message of the Error thrown
IsInvalidIVLength(r) == ~r.ok /\ r.err.msg = "Invalid IV length"

IsInvalidCiphertextLength(r) == ~r.ok /\ r.err.msg = "Invalid ciphertext length"

IsInvalidKeyLength(r) == ~r.ok /\ r.err.msg = "Invalid key length"

IsValidationError(r) ==
    IsInvalidIVLength(r) \/ IsInvalidCiphertextLength(r) \/ IsInvalidKeyLength(r)

ValidCiphertextLength == Len(data) > 0 /\ Len(data) % 16 = 0

\* C11: decryptCBC fails with the invalid-IV-length error when the IV is not 16
\* bytes, and with the invalid-ciphertext-length error when the ciphertext
\* length is not a positive multiple of 16, length 0 included.
DecryptValidatesLengths ==
    pc \in {"decryptedRaw", "decryptedBoth"} =>
        /\ Len(iv.bytes) # 16 => IsInvalidIVLength(out)
        /\ (Len(iv.bytes) = 16 /\ ~ValidCiphertextLength) =>
              IsInvalidCiphertextLength(out)

\* what a caller of decryptCBC sees for a one-block ciphertext that no encryption
\* produced, and a caller of decryptCBCWithSteps for the same ciphertext
ReferencePaddingFailure == decryptCBC(Pattern(16, 201, 11), Pattern(16, 0, 1), IV0)

ReferencePaddingFailureWithSteps ==
    decryptCBCWithSteps(Pattern(16, 201, 11), Pattern(16, 0, 1), IV0)

\* C12: with key, IV and ciphertext of valid lengths, every failure of
\* decryptCBC is the same error value as every other, and so is every failure
\* of decryptCBCWithSteps: the value names neither the check that failed nor a
\* byte or position of the decrypted data.
PaddingFailureGeneric ==
    (pc = "decryptedBoth" /\ ValidKey /\ Len(iv.bytes) = 16 /\ ValidCiphertextLength) =>
        /\ ~out.ok => out = ReferencePaddingFailure
        /\ ~back.ok => back = ReferencePaddingFailureWithSteps

\* C13: for a key whose length is not 16, 24 or 32, encryptCBC and decryptCBC
\* fail with a validation error for every plaintext and ciphertext, the empty
\* ciphertext included; they never report a padding failure.
KeyValidatedEagerly ==
    (pc \in {"encrypted", "encryptedBoth", "decryptedRaw", "decryptedBoth"}
        /\ ~ValidKey) => IsValidationError(out)

\* blocks[1].f \o blocks[2].f \o ... for the field the selector f reads
RECURSIVE ConcatEncrypted(_)
ConcatEncrypted(blocks) ==
    IF blocks = << >> THEN << >>
    ELSE Head(blocks).encrypted \o ConcatEncrypted(Tail(blocks))

RECURSIVE ConcatXorWithPrevious(_)
ConcatXorWithPrevious(blocks) ==
    IF blocks = << >> THEN << >>
    ELSE Head(blocks).xorWithPrevious \o ConcatXorWithPrevious(Tail(blocks))

\* C15: whenever encryptCBC succeeds, encryptCBCWithSteps on the same arguments
\* succeeds with the same ciphertext, which is the concatenation of its block
\* records' encrypted fields; whenever decryptCBC succeeds, decryptCBCWithSteps
\* succeeds with the same plaintext, and the concatenation of its block
\* records' xorWithPrevious fields is that plaintext padded.
StepsSameResult ==
    /\ (pc = "encryptedBoth" /\ out.ok) =>
          /\ back.ok
          /\ back.val.ciphertext = out.val.ciphertext
          /\ back.val.iv = out.val.iv
          /\ ConcatEncrypted(back.val.blocks) = out.val.ciphertext
          /\ Len(back.val.blocks) * 16 = Len(out.val.ciphertext)
          /\ \A j \in 1..Len(back.val.blocks) : back.val.blocks[j].index = j - 1
    /\ (pc = "decryptedBoth" /\ out.ok) =>
          /\ back.ok
          /\ back.val.plaintext = out.val
          /\ ConcatXorWithPrevious(back.val.blocks) = back.val.paddedPlaintext
          /\ back.val.paddedPlaintext = padPKCS7(out.val, 16)
          /\ \A j \in 1..Len(back.val.blocks) : back.val.blocks[j].index = j - 1

StepsSameResultWitness ==
    /\ pc = "encryptedBoth"
    /\ out.ok
    /\ back.ok
    /\ Len(back.val.blocks) = 3
    /\ back.val.ciphertext = out.val.ciphertext
    /\ back.val.blocks[3].encrypted = Slice(out.val.ciphertext, 32, 48)

\* C16: the step-trace variants fail exactly when the plain operations fail,
\* and with an error of the same kind.
StepsSameFailures ==
    pc \in {"encryptedBoth", "decryptedBoth"} =>
        /\ out.ok <=> back.ok
        /\ ~out.ok => back.err.msg = out.err.msg

\* a character that is neither a hex digit nor whitespace
HasNonHex(s) == \E i \in 1..Len(s) : ~IsHexDigit(s[i]) /\ ~IsWhitespace(s[i])

IsInvalidHexInput(r) == ~r.ok /\ r.err.msg = "Invalid hex input"

\* C14: encrypt with a key, and decrypt with a key, ciphertext or IV, that
\* contains a character that is not a hex digit fails with the invalid-hex-input
\* error.
HexInputRejected ==
    /\ (pc \in {"textEncrypted", "textDecrypted"} /\ HasNonHex(key)) =>
          IsInvalidHexInput(out)
    /\ (pc = "textDecryptedRaw"
            /\ (HasNonHex(key) \/ HasNonHex(data) \/ HasNonHex(iv.bytes))) =>
          IsInvalidHexInput(out)

\* C17: for every text and every valid hex key, encrypt succeeds and decrypt of
\* its ciphertext and IV under the same key, with or without step recording,
\* returns the text.
TextRoundTrip ==
    (pc \in {"textEncrypted", "textDecrypted"} /\ isValidHex(key)
        /\ isValidKeyLength(hexToBytes(key))) =>
        /\ out.ok
        /\ pc = "textDecrypted" => (back.ok /\ back.val.plaintext = data)

\* C19: each iteration of the loop of encryptCBC takes the next block of the
\* padded plaintext, in increasing order, and appends
\* aesEncryptBlock(plainBlock XOR prev, key) to the ciphertext, prev being the
\* IV for the first block and the cipher block just produced for the others;
\* the ciphertext returned is that of the last iteration.
EncryptChaining ==
    [][/\ (pc = "encryptLoop" /\ pc' = "encryptLoop") =>
            LET i == loop.i
                prev == IF i = 0 THEN iv.bytes ELSE Slice(loop.output, i - 16, i)
                plainBlock == Slice(padPKCS7(data, 16), i, i + 16)
            IN  /\ loop'.i = i + 16
                /\ Len(loop.output) = i
                /\ Len(loop'.output) = i + 16
                /\ SubSeq(loop'.output, 1, i) = loop.output
                /\ Slice(loop'.output, i, i + 16)
                      = aesEncryptBlock(xorBytes(plainBlock, prev).val, key).val
       /\ (pc = "encryptLoop" /\ pc' = "encrypted" /\ out'.ok) =>
            /\ loop.i = Len(padPKCS7(data, 16))
            /\ out'.val.ciphertext = loop.output
      ]_vars

\* two blocks encrypted, a third still to come
EncryptChainingWitness ==
    /\ pc = "encryptLoop"
    /\ loop.i = 32
    /\ Len(loop.input) = 48
    /\ Len(loop.output) = 32
    /\ loop.previousBlock = Slice(loop.output, 16, 32)
    /\ loop.previousBlock # iv.bytes

\* C20: each iteration of the loop of decryptCBC appends
\* aesDecryptBlock(cipherBlock, key) XOR prev to the plaintext, prev being the
\* IV for the first block and the input cipher block before it for the others;
\* the block records of decryptCBCWithSteps obey the same equation.
DecryptChaining ==
    [][/\ (pc = "decryptLoop" /\ pc' = "decryptLoop") =>
            LET i == loop.i
                prev == IF i = 0 THEN iv.bytes ELSE Slice(data, i - 16, i)
                cipherBlock == Slice(data, i, i + 16)
            IN  /\ loop'.i = i + 16
                /\ SubSeq(loop'.output, 1, i) = loop.output
                /\ Slice(loop'.output, i, i + 16)
                      = xorBytes(aesDecryptBlock(cipherBlock, key).val, prev).val
       /\ (pc = "decryptedRaw" /\ pc' = "decryptedBoth" /\ back'.ok) =>
            \A j \in 1..Len(back'.val.blocks) :
                LET record == back'.val.blocks[j]
                    prev == IF j = 1 THEN iv.bytes ELSE Slice(data, 16 * (j - 2), 16 * (j - 1))
                IN  /\ record.cipherBlock = Slice(data, 16 * (j - 1), 16 * j)
                    /\ record.decrypted = aesDecryptBlock(record.cipherBlock, key).val
                    /\ record.xorWithPrevious = xorBytes(record.decrypted, prev).val
      ]_vars

\* two blocks decrypted, the second chained on the first input cipher block
DecryptChainingWitness ==
    /\ pc = "decryptLoop"
    /\ loop.i = 32
    /\ Len(data) = 32
    /\ Len(loop.output) = 32
    /\ loop.previousBlock = Slice(data, 16, 32)
    /\ loop.previousBlock # Slice(loop.output, 16, 32)

\* block b (0-based) of the byte array s
BlockOf(s, b) == Slice(s, 16 * b, 16 * (b + 1))

\* C21: for two ciphertexts of equal length that differ only in block j,
\* decrypted by decryptCBC with the same key and IV, the plaintext arrays before
\* unpadding agree on every block other than j and j + 1.
ErrorLocality ==
    pc = "localitySecond" =>
        LET first == data
            second == back.val.ciphertext
            n == Len(first) \div 16
        IN  Len(second) = Len(first) =>
              \A j \in 0..(n - 1) :
                  (\A b \in 0..(n - 1) : b # j => BlockOf(first, b) = BlockOf(second, b)) =>
                      /\ Len(back.val.paddedPlaintext) = Len(loop.output)
                      /\ \A b \in 0..(n - 1) :
                            b \notin {j, j + 1} =>
                                BlockOf(loop.output, b) = BlockOf(back.val.paddedPlaintext, b)

\* four blocks, the first changed: the first two plaintext blocks change, the
\* last two do not
ErrorLocalityWitness ==
    /\ pc = "localitySecond"
    /\ Len(data) = 64
    /\ BlockOf(data, 0) # BlockOf(back.val.ciphertext, 0)
    /\ \A b \in 1..3 : BlockOf(data, b) = BlockOf(back.val.ciphertext, b)
    /\ BlockOf(loop.output, 0) # BlockOf(back.val.paddedPlaintext, 0)
    /\ BlockOf(loop.output, 1) # BlockOf(back.val.paddedPlaintext, 1)
    /\ BlockOf(loop.output, 2) = BlockOf(back.val.paddedPlaintext, 2)
    /\ BlockOf(loop.output, 3) = BlockOf(back.val.paddedPlaintext, 3)
    /\ out.ok
    /\ back.val.result.ok
    /\ back.val.result.val # out.val

\* the number of rounds for a key of keyLength bytes
RoundsOf(keyLength) ==
    CASE keyLength = 16 -> 10
      [] keyLength = 24 -> 12
      [] keyLength = 32 -> 14

IsPrefix(s, t) == Len(s) <= Len(t) /\ SubSeq(t, 1, Len(s)) = s

\* SubBytes, ShiftRows, MixColumns, AddRoundKey for the rounds r .. Nr - 1
RECURSIVE ExpectedEncryptRounds(_, _)
ExpectedEncryptRounds(r, Nr) ==
    IF r >= Nr THEN << >>
    ELSE << << "subBytes" >>, << "shiftRows" >>, << "mixColumns" >>,
            << "addRoundKey", r >> >> \o ExpectedEncryptRounds(r + 1, Nr)

ExpectedEncryptSteps(Nr) ==
    << << "addRoundKey", 0 >> >> \o ExpectedEncryptRounds(1, Nr)
        \o << << "subBytes" >>, << "shiftRows" >>, << "addRoundKey", Nr >> >>

\* C22: aesEncryptBlock XORs round key 0, then in rounds 1..Nr-1 calls SubBytes,
\* ShiftRows, MixColumns, AddRoundKey in that order, then in round Nr SubBytes,
\* ShiftRows, AddRoundKey; the calls made so far are always a prefix of that
\* sequence, which depends on the key length only, and the block is returned
\* exactly when the sequence is complete.
EncryptStepOrder ==
    /\ pc \in {"encryptRound", "encryptRoundsDone"} =>
          /\ IsPrefix(loop.applied, ExpectedEncryptSteps(RoundsOf(Len(key))))
          /\ pc = "encryptRoundsDone"
                <=> loop.applied = ExpectedEncryptSteps(RoundsOf(Len(key)))
    /\ (pc = "roundsEncrypted" /\ ValidKey /\ Len(data) = 16) =>
          /\ out.ok
          /\ loop.applied = ExpectedEncryptSteps(RoundsOf(Len(key)))
          /\ out.val = stateToBytes(loop.state)

\* a block encrypted under a 24-byte key: 48 calls, round key 11 the last of the
\* main rounds
EncryptStepOrderWitness ==
    /\ pc = "roundsEncrypted"
    /\ Len(key) = 24
    /\ out.ok
    /\ Len(loop.applied) = 48
    /\ loop.applied[44] = << "mixColumns" >>
    /\ loop.applied[45] = << "addRoundKey", 11 >>
    /\ loop.applied[48] = << "addRoundKey", 12 >>
    /\ out = aesEncryptBlock(data, key)

\* InvShiftRows, InvSubBytes, AddRoundKey, InvMixColumns for the rounds r down to 1
RECURSIVE ExpectedDecryptRounds(_)
ExpectedDecryptRounds(r) ==
    IF r <= 0 THEN << >>
    ELSE << << "invShiftRows" >>, << "invSubBytes" >>, << "addRoundKey", r >>,
            << "invMixColumns" >> >> \o ExpectedDecryptRounds(r - 1)

ExpectedDecryptSteps(Nr) ==
    << << "addRoundKey", Nr >> >> \o ExpectedDecryptRounds(Nr - 1)
        \o << << "invShiftRows" >>, << "invSubBytes" >>, << "addRoundKey", 0 >> >>

\* how many times the call named step occurs in the sequence applied
CountOf(applied, step) == Cardinality({n \in 1..Len(applied) : applied[n][1] = step})

\* C23: aesDecryptBlock XORs round key Nr, then in rounds Nr-1 down to 1 calls
\* InvShiftRows, InvSubBytes, AddRoundKey, InvMixColumns in that order, then with
\* round key 0 InvShiftRows, InvSubBytes, AddRoundKey; every round key is used
\* once, in decreasing order, and InvMixColumns is called Nr - 1 times.
DecryptStepOrder ==
    /\ pc \in {"decryptRound", "decryptRoundsDone"} =>
          /\ IsPrefix(loop.applied, ExpectedDecryptSteps(RoundsOf(Len(key))))
          /\ pc = "decryptRoundsDone"
                <=> loop.applied = ExpectedDecryptSteps(RoundsOf(Len(key)))
    /\ (pc = "roundsDecrypted" /\ ValidKey /\ Len(data) = 16) =>
          /\ out.ok
          /\ loop.applied = ExpectedDecryptSteps(RoundsOf(Len(key)))
          /\ CountOf(loop.applied, "invMixColumns") = RoundsOf(Len(key)) - 1
          /\ CountOf(loop.applied, "addRoundKey") = RoundsOf(Len(key)) + 1
          /\ out.val = stateToBytes(loop.state)

\* a block decrypted under a 32-byte key: 56 calls, InvMixColumns 13 times
DecryptStepOrderWitness ==
    /\ pc = "roundsDecrypted"
    /\ Len(key) = 32
    /\ out.ok
    /\ Len(loop.applied) = 56
    /\ loop.applied[1] = << "addRoundKey", 14 >>
    /\ loop.applied[4] = << "addRoundKey", 13 >>
    /\ loop.applied[5] = << "invMixColumns" >>
    /\ loop.applied[56] = << "addRoundKey", 0 >>
    /\ CountOf(loop.applied, "invMixColumns") = 13
    /\ out = aesDecryptBlock(data, key)

\* word i (0-based) of the expanded key, read from the round keys returned
WordOf(roundKeys, i) == SubSeq(roundKeys[(i \div 4) + 1], 4 * (i % 4) + 1, 4 * (i % 4) + 4)

RotWord(word) == << word[2], word[3], word[4], word[1] >>

SubWord(word) == << SBOX[word[1] + 1], SBOX[word[2] + 1], SBOX[word[3] + 1], SBOX[word[4] + 1] >>

XorWord(a, b) == << XOR8[a[1]][b[1]], XOR8[a[2]][b[2]], XOR8[a[3]][b[3]], XOR8[a[4]][b[4]] >>

\* g of the recurrence, for the word before word i
ScheduleG(word, i, Nk) ==
    IF i % Nk = 0
    THEN XorWord(SubWord(RotWord(word)), << RCON[i \div Nk], 0, 0, 0 >>)
    ELSE IF Nk = 8 /\ i % 8 = 4
    THEN SubWord(word)
    ELSE word

\* C24: the words 0..Nk-1 of the expanded key are the key bytes (round key 0 is
\* key[0..15]), and every word i >= Nk is w[i-Nk] XOR g(w[i-1]), g being RotWord,
\* SubWord and the XOR with RCON[i/Nk] when i mod Nk = 0, SubWord alone when
\* Nk = 8 and i mod 8 = 4, the identity otherwise; the RCON index is in 1..10.
ScheduleRecurrence ==
    (pc = "expanded" /\ out.ok) =>
        LET Nk == Len(key) \div 4
            last == 4 * Len(out.val) - 1
        IN  /\ Nk * 4 = Len(key)
            /\ \A i \in 0..(Nk - 1) : WordOf(out.val, i) = SubSeq(key, 4 * i + 1, 4 * i + 4)
            /\ out.val[1] = SubSeq(key, 1, 16)
            /\ \A i \in Nk..last :
                  /\ i % Nk = 0 => (i \div Nk) \in 1..10
                  /\ WordOf(out.val, i)
                        = XorWord(WordOf(out.val, i - Nk), ScheduleG(WordOf(out.val, i - 1), i, Nk))

\* a 32-byte key: word 12 is w[4] XOR SubWord(w[11]), word 8 uses RCON[1], and
\* neither is the plain XOR of the two words
ScheduleRecurrenceWitness ==
    /\ pc = "expanded"
    /\ out.ok
    /\ Len(key) = 32
    /\ Len(out.val) = 15
    /\ WordOf(out.val, 12) = XorWord(WordOf(out.val, 4), SubWord(WordOf(out.val, 11)))
    /\ WordOf(out.val, 12) # XorWord(WordOf(out.val, 4), WordOf(out.val, 11))
    /\ WordOf(out.val, 8) # XorWord(WordOf(out.val, 0), WordOf(out.val, 7))
    /\ WordOf(out.val, 13) = XorWord(WordOf(out.val, 5), WordOf(out.val, 12))

\* C25: one call of encryptCBC or decryptCBC over a message of one block or more
\* calls keyExpansion exactly once.
KeyExpandedOnce ==
    /\ (pc = "encrypted" /\ out.ok) => loop.keyExpansions = 1
    /\ (pc = "decryptedRaw" /\ out.ok /\ Len(data) >= 16) => loop.keyExpansions = 1

IsInvalidBlockLength(r) == ~r.ok /\ r.err.msg = "Invalid block size"

\* C26: with a key of 16, 24 or 32 bytes, aesEncryptBlock and aesDecryptBlock
\* fail with the invalid-block-length error on every block that is not 16 bytes
\* long, before addRoundKey or any other transformation is called on it.
BlockLengthRejected ==
    (pc \in {"roundsEncrypted", "roundsDecrypted"} /\ ValidKey /\ Len(data) # 16) =>
        /\ IsInvalidBlockLength(out)
        /\ out.err.args = << Len(data) >>
        /\ loop = NoLoop
        /\ pc = "roundsEncrypted" => out = aesEncryptBlock(data, key)
        /\ pc = "roundsDecrypted" => out = aesDecryptBlock(data, key)

\* a 17-byte block handed to aesDecryptBlock with a 24-byte key
BlockLengthRejectedWitness ==
    /\ pc = "roundsDecrypted"
    /\ Len(key) = 24
    /\ Len(data) = 17
    /\ IsInvalidBlockLength(out)
    /\ loop = NoLoop

\* C27: shiftRows(s)[r][c] = s[r][(c + r) mod 4] and
\* invShiftRows(s)[r][c] = s[r][(c - r) mod 4] for every state s, row r and
\* column c, and each of the two undoes the other.
RowRotation ==
    /\ pc \in {"shifted", "shiftedBack"} =>
          \A r \in 0..3, c \in 0..3 : out.val[r + 1][c + 1] = data[r + 1][((c + r) % 4) + 1]
    /\ pc \in {"invShifted", "invShiftedBack"} =>
          \A r \in 0..3, c \in 0..3 :
              out.val[r + 1][c + 1] = data[r + 1][((c - r + 4) % 4) + 1]
    /\ pc \in {"shiftedBack", "invShiftedBack"} => back.val = data

\* a state of sixteen different bytes rotated left and back: the rows 1 to 3 moved
RowRotationWitness ==
    /\ pc = "shiftedBack"
    /\ Cardinality({data[r][c] : r \in 1..4, c \in 1..4}) = 16
    /\ out.val[1] = data[1]
    /\ \A r \in 2..4 : out.val[r] # data[r]
    /\ out.val # invShiftRows(data)
    /\ back.val = data

\* the number of hex digits in the text s
HexDigitCount(s) == Cardinality({n \in 1..Len(s) : IsHexDigit(s[n])})

\* C28: a hex key with an odd number of digits is not converted as if a digit
\* had been added to it: hexToBytes does not give the bytes of the key with a
\* '0' put in front, and encrypt does not succeed with it.
OddHexRejected ==
    (pc = "textEncrypted" /\ isValidHex(key) /\ HexDigitCount(key) % 2 = 1) =>
        /\ hexToBytes(key) # hexToBytes(<< "0" >> \o key)
        /\ ~out.ok

CallsComplete ==
    /\ [][(pc = "splitLoop" /\ pc' = "splitLoop") => loop'.i > loop.i]_vars
    /\ [][(pc \in {"encryptLoop", "decryptLoop"} /\ pc' = pc) => loop'.i > loop.i]_vars
    /\ (pc = "splitLoop") ~> (pc = "splitReturned")
    /\ (pc = "encryptLoop") ~> (pc = "encrypted")
    /\ (pc = "decryptLoop") ~> (pc = "decryptedRaw")
    /\ []((pc = "encrypted" /\ out.ok) =>
            /\ loop.i = 16 * ((Len(data) \div 16) + 1)
            /\ loop.keyExpansions = (Len(data) \div 16) + 1)
    /\ []((pc = "decryptedRaw" /\ loop # NoLoop /\ ValidKey) =>
            /\ loop.i = Len(data)
            /\ loop.keyExpansions * 16 = Len(data))
    /\ [](pc = "joined" => back.val = data)

====
